---- MODULE Spec2Model ----
(***************************************************************************)
(* Verification model of the spawn_groups crate: the value group           *)
(* (src/src/spawn_group.rs), the runtime engine (src/src/shared/runtime.rs)*)
(* and the result stream (src/src/async_stream/stream.rs, with the task    *)
(* bookkeeping of src/src/async_stream/inner.rs).                          *)
(*                                                                         *)
(* One body thread owns the group and calls its operations one after the   *)
(* other.  Every spawned child is a producer task on the tokio runtime     *)
(* (runtime.rs:69-73): increment, await the user future and insert its     *)
(* result, decrement the task count.  The engine is the `threadpool`       *)
(* crate's pool: `execute` queues a job, `join` blocks until no job is     *)
(* queued or active.                                                       *)
(***************************************************************************)
EXTENDS Integers, Sequences, FiniteSets, TLC

\* ---------------------------------------------------------------- bounds
\* number of children the body may spawn
MaxTasks == 2
\* worker threads of the engine pool (num_cpus::get() on the host)
NumThreads == 2

\* ------------------------------------------------------------- constants
\* Priority discriminants (shared/priority.rs)
LOW == 1
HIGH == 4
BACKGROUND == 0
UTILITY == 2
MEDIUM == 3
USERINITIATED == 5
\* every variant of the enum
PriorityValues == BACKGROUND..USERINITIATED
\* priorities the body spawns with
Priorities == {LOW, HIGH}

TaskIds == 1..MaxTasks

VARIABLES
    \* SpawnGroup fields
    is_cancelled, wait_at_drop, count,
    \* AsyncStream / InnerState / Inner fields
    buffer, wakers, item_count, task_count, cancelled,
    \* RuntimeEngine: iter (priority, handle) vector, engine job queue
    iter, engine,
    \* tokio producer tasks: position, abort requested
    tpc, abort_req,
    \* body thread position
    pc,
    \* returned: what the last step returned to the body thread ("none" when
    \* the last step was not the return of a body operation); histories
    returned, yielded, inserted,
    \* stale: the children spawned before the latest cancel_all; prio: the
    \* priority each child was spawned with
    stale, prio,
    \* async_runtime/executor.rs: the Executor, its run thread and its tasks
    executor,
    \* threadpool_impl/thread.rs: one UniqueThread, its inbox, its suspender,
    \* the tasks handed to it and the thread that calls the pool
    worker,
    \* async_runtime/exec.rs: the Executor over a ThreadPool, its run thread,
    \* the pool's worker and the thread that calls the Executor
    exec,
    \* threadpool_impl/eventloop.rs: one EventLoop, its inbox and read buffer,
    \* its thread and the thread that calls it
    eloop,
    \* executors/future_executor.rs: the thread inside block_on, its Parker,
    \* the thread-local Waker and the clones of it held by other threads
    blk,
    \* the groups built by each constructor of the three group types
    groups,
    \* threadpool/threadpool.rs and threadpool_impl/index.rs: the pool that
    \* ThreadPool::new returns, the Indexer and the threads inside next
    indexer,
    \* shared/suspender.rs and executors/suspender.rs: one Suspender, the
    \* thread that suspends on it and the threads that resume it
    susp,
    \* async_runtime/task.rs: the Inner of one task and the threads that
    \* hold a handle to it and poll it
    task_inner,
    \* async_runtime/task.rs: the Rc of one task, its strong count and the
    \* threads that clone and drop its handles
    rc,
    \* threadpool_impl/queue.rs: one PriorityQueue and what its pops returned
    pq,
    \* shared/priority_task.rs: the last comparison or conversion made
    ord,
    \* threadpool/threadpool.rs: one ThreadPool, its shared queue, its
    \* barrier, its workers and the threads that call it
    tpool,
    \* threadpool_impl/channel.rs: one Channel, its producers and consumers
    chan,
    \* async_stream: one AsyncStream, its lock and waker slot, the producers
    \* inside insert_item and the consumer inside poll_next
    strm,
    \* executors/waker.rs and shared/waker.rs: one Waker, its clones and the
    \* reference count of the state they share
    wk

vars == <<is_cancelled, wait_at_drop, count, buffer, wakers, item_count,
          task_count, cancelled, iter, engine, tpc, abort_req, pc,
          returned, yielded, inserted, stale, prio, executor, worker, exec, eloop, blk, groups,
          indexer, susp, task_inner, rc, pq, ord, tpool, chan, strm, wk>>

groupVars == <<is_cancelled, wait_at_drop, count>>
streamVars == <<buffer, wakers, item_count, task_count, cancelled>>
taskVars == <<tpc, abort_req>>
histVars == <<yielded, inserted, stale, prio>>
\* the state of the spawn group, its engine and its stream
modelVars == <<groupVars, streamVars, iter, engine, taskVars, pc, returned, histVars>>
\* the components of the pool constructor and Indexer, the Suspender, the
\* Task, its Rc, the PriorityQueue and the comparisons
laterVars == <<indexer, susp, task_inner, rc, pq, ord, tpool, chan, strm, wk>>
\* the components of the shared-queue pool, the Channel, the stream's lock
\* and waker slot, and the Waker
lastVars == <<tpool, chan, strm, wk>>
midVars == <<indexer, susp, task_inner, rc, pq, ord>>
\* the components of the executors, workers and constructed groups
olderVars == <<executor, worker, exec, eloop, blk, groups>>
\* what the steps of the spawn group model leave alone
groupFrame == <<executor, worker, exec, eloop, blk, groups, laterVars>>
\* what the steps of the Executor leave alone
executorFrame == <<modelVars, worker, exec, eloop, blk, groups, laterVars>>
\* what the steps of the UniqueThread and its pool leave alone
workerFrame == <<modelVars, executor, exec, eloop, blk, groups, laterVars>>
\* what the steps of the Executor of exec.rs leave alone
execFrame == <<modelVars, executor, worker, eloop, blk, groups, laterVars>>
\* what the steps of the EventLoop leave alone
eloopFrame == <<modelVars, executor, worker, exec, blk, groups, laterVars>>
\* what the steps of block_on leave alone
blkFrame == <<modelVars, executor, worker, exec, eloop, groups, laterVars>>
\* what the steps on the constructed groups leave alone
groupsFrame == <<modelVars, executor, worker, exec, eloop, blk, laterVars>>
\* what the steps of the pool constructor and the Indexer leave alone
indexerFrame == <<modelVars, olderVars, susp, task_inner, rc, pq, ord, lastVars>>
\* what the steps of the Suspender leave alone
suspFrame == <<modelVars, olderVars, indexer, task_inner, rc, pq, ord, lastVars>>
\* what the steps on the Inner of a task leave alone
taskInnerFrame == <<modelVars, olderVars, indexer, susp, rc, pq, ord, lastVars>>
\* what the steps on the Rc of a task leave alone
rcFrame == <<modelVars, olderVars, indexer, susp, task_inner, pq, ord, lastVars>>
\* what the steps of the PriorityQueue leave alone
pqFrame == <<modelVars, olderVars, indexer, susp, task_inner, rc, ord, lastVars>>
\* what the comparisons and conversions leave alone
ordFrame == <<modelVars, olderVars, indexer, susp, task_inner, rc, pq, lastVars>>
\* what the steps of the shared-queue pool leave alone
tpoolFrame == <<modelVars, olderVars, midVars, chan, strm, wk>>
\* what the steps of the Channel leave alone
chanFrame == <<modelVars, olderVars, midVars, tpool, strm, wk>>
\* what the steps on the stream's lock and waker slot leave alone
strmFrame == <<modelVars, olderVars, midVars, tpool, chan, wk>>
\* what the steps on the Waker leave alone
wkFrame == <<modelVars, olderVars, midVars, tpool, chan, strm>>

\* ------------------------------------------------------ helper operators
Spawned == {t \in TaskIds : tpc[t] # "none"}
Finished(t) == tpc[t] \in {"done", "aborted"}
Running(t) == tpc[t] \in {"spawned", "user", "inserted"}

RECURSIVE SeqToSet(_)
SeqToSet(s) == IF s = <<>> THEN {} ELSE {Head(s)} \cup SeqToSet(Tail(s))

\* ---------------------------------------------------------------- Init
\* number of tasks spawned on the Executor
ExecTasks == 2
ExecIds == 1..ExecTasks

\* Executor::default (async_runtime/executor.rs): cancel false, lock_pair
\* (false, _), empty queue, started false; start() has spawned the run thread,
\* which waits on the condvar
ExecutorInit ==
    executor = [cancel |-> FALSE, lock |-> FALSE, started |-> FALSE,
                queue |-> <<>>, run |-> "waiting", notifiers |-> 0,
                pool |-> {}, task |-> [t \in ExecIds |-> "none"],
                late |-> {}, cancelled |-> FALSE, pc |-> "idle"]

\* number of tasks submitted to the UniqueThread
WorkerTasks == 2
WorkerIds == 1..WorkerTasks
\* the inbox item that carries the barrier (TaskOrBarrier::Barrier)
BarrierItem == 0
\* what polling a child does: return Ready; wake itself and return Pending
\* once; return Pending until another thread has called its waker; return
\* Pending for ever and never be woken; panic
Kinds == {"ready", "yield", "sleep", "never", "panic"}

\* UniqueThread::default (threadpool_impl/thread.rs): an open, empty channel
\* and a thread at the top of its loop; the thread-local Suspender starts
\* Initial (shared/suspender.rs); a barrier nobody waits on
WorkerInit ==
    worker = [inbox |-> <<>>, closed |-> FALSE, pc |-> "dequeue", cur |-> 0,
              state |-> "Initial",
              kind |-> [t \in WorkerIds |-> "ready"],
              st |-> [t \in WorkerIds |-> "none"],
              timers |-> {}, fired |-> {},
              barrier |-> 0, caller |-> "idle", op |-> "none"]

\* the pool operation that makes a worker wait at the barrier
\* (QueueOperation::Wait)
WaitOp == 0

\* Executor::new(1) (async_runtime/exec.rs): an empty open channel, a pool of
\* one worker with an empty queue, the run thread at queue.dequeue()
ExecInit ==
    exec = [queue |-> <<>>, closed |-> FALSE, run |-> "dequeue", held |-> 0,
            pool |-> <<>>, wpc |-> "next", work |-> 0, barrier |-> 0,
            task |-> [t \in ExecIds |-> "none"],
            pc |-> "idle", calling |-> {}, before |-> {},
            polled_after |-> {}, requeued_after |-> {}]

\* number of tasks submitted to the EventLoop
LoopTasks == 4
LoopIds == 1..LoopTasks
\* enum TaskPriority (threadpool_impl/task_priority.rs), by discriminant
TaskPriorityWait == 0
TaskPriorityLow == 2
TaskPriorityMedium == 4
TaskPriorityHigh == 5
TaskPriorityBackground == 1
TaskPriorityUtility == 3
TaskPriorityUserInitiated == 6
\* every level of the enum
TaskPriorityLevels == TaskPriorityWait..TaskPriorityUserInitiated
TaskPriorities == {TaskPriorityLow, TaskPriorityMedium, TaskPriorityHigh}

\* EventLoop::new (threadpool_impl/eventloop.rs): an empty inbox, m_running
\* true, the thread in start() with an empty read_buffer
EventLoopInit ==
    eloop = [inbox |-> <<>>, read_buffer |-> <<>>, m_running |-> TRUE,
             pc |-> "wait", cur |-> [id |-> 0, p |-> TaskPriorityWait],
             busy |-> {}, waiting |-> {}, st |-> [t \in LoopIds |-> "none"],
             barrier |-> 0, caller |-> "idle"]

\* the states of the Parker (executors/parker.rs)
EMPTY == 0
PARKED == 1
NOTIFIED == 2
\* how many times a future handed to block_on registers a clone of the waker
\* and returns Pending, and how many times one thread calls block_on
MaxPending == 2
MaxCalls == 2
\* the futures handed to block_on: async { 1 }; a Yielder followed by a
\* value; a future that stores a clone of the waker for another thread and
\* returns Pending until that thread has woken it
Futures == {"ready", "yield", "wait"}
\* what a use of the waker's freed allocation can do
Dangling == {"works", "nothing", "crash"}

\* the thread-local WAKER_PAIR of block_on (parker_and_waker): Parker::new
\* leaves the state EMPTY; waker_helper puts the closure in an Arc of strong
\* count 1, owned by the thread-local Waker
BlockOnInit ==
    blk = [pc |-> "idle", fut |-> "ready", remaining |-> 0, yield_now |-> FALSE,
           state |-> EMPTY, strong |-> 1, clones |-> 0, calls |-> 0,
           pendings |-> 0, parks |-> 0, output |-> 0]

\* the constructors of the value, error and discarding groups
Constructors == {"SpawnGroup::init", "ErrSpawnGroup::new",
                 "DiscardingSpawnGroup::new", "DiscardingSpawnGroup::init"}

\* no group has been constructed yet
GroupsInit ==
    groups = [c \in Constructors |->
                [built |-> FALSE, is_cancelled |-> FALSE, wait_at_drop |-> FALSE,
                 opted_out |-> FALSE, dropped |-> "no"]]

\* the largest worker count a pool or an Indexer is built with
MaxWorkers == 3
\* the threads that call Indexer::next, and how many calls they make in all
NumSubmitters == 2
MaxNext == 4
Submitters == 1..NumSubmitters
\* the build profiles: overflow checks are on in debug and off in release
Profiles == {"debug", "release"}

\* no pool and no Indexer has been built yet
IndexerInit ==
    indexer = [pool |-> "none", requested |-> 0, built |-> "no", count |-> 0,
               wrapped |-> FALSE, last_index |-> 0, index |-> 0,
               tpc |-> [t \in Submitters |-> "idle"], calls |-> 0,
               callers |-> {}, returns |-> <<>>]

\* the two implementations of the Suspender
SuspenderImpls == {"shared", "executors"}
\* the threads that hold the resumer (the Waker), and how many times they
\* resume and the owner suspends
NumResumers == 2
MaxResumes == 3
MaxSuspends == 3
Resumers == 1..NumResumers

\* before pair() is called; pair() leaves the state Initial (Empty in
\* executors/suspender.rs)
SuspenderInit ==
    susp = [impl |-> "none", state |-> "Initial", pc |-> "idle",
            signalled |-> FALSE, suspends |-> 0, resumes |-> 0, returns |-> 0,
            last |-> "none", by |-> 0]
\* the threads that hold a handle to the task and poll it, and how many times
\* in all they start to poll it
NumPollers == 2
MaxPolls == 4
Pollers == 1..NumPollers
\* what polling a future that has already returned Ready may do
AfterReady == {"ready", "pending", "panic"}

\* before Executor::spawn builds the task; Inner::new leaves poll_check 0 and
\* complete false
TaskInit ==
    task_inner = [created |-> FALSE, remaining |-> 0, finished |-> FALSE,
                  poll_check |-> 0, complete |-> FALSE, completes |-> 0,
                  queued |-> 0, entries |-> 0,
                  tpc |-> [t \in Pollers |-> "idle"],
                  via |-> [t \in Pollers |-> "none"],
                  result |-> [t \in Pollers |-> "none"],
                  polled_after |-> FALSE, unwound |-> FALSE]
\* the threads that own handles of one task, and how many clones and drops
\* they start in all
NumHolders == 2
MaxRcOps == 4
Holders == 1..NumHolders

\* before Executor::spawn: no Rc has been allocated
RcInit ==
    rc = [created |-> FALSE, strong |-> 0, freed |-> 0, ops |-> 0,
          handles |-> [t \in Holders |-> 0],
          tpc |-> [t \in Holders |-> "idle"],
          tmp |-> [t \in Holders |-> 0]]
\* how many elements are pushed on the PriorityQueue in all
MaxHeap == 6
\* the result of a pop on an empty queue
None == [id |-> 0, p |-> 0]

\* PriorityQueue::new: an empty storage
QueueInit ==
    pq = [storage |-> <<>>, before |-> <<>>, last |-> "none", result |-> None,
          pushed |-> 0]
\* the two tasks compared
Sides == {"lhs", "rhs"}

\* two barrier sentinels (PrioritizedTask::new_with at the Wait level); no
\* comparison has been made
OrdInit ==
    ord = [lhs |-> TaskPriorityWait, rhs |-> TaskPriorityWait, op |-> "none",
           value |-> BACKGROUND, result |-> "none"]

\* the workers of the shared-queue pool, the threads that call it and the
\* work items they submit
NumPoolWorkers == 2
NumCallers == 2
MaxWork == 2
MaxWaitCalls == 2
PoolWorkers == 1..NumPoolWorkers
Callers == (NumPoolWorkers + 1)..(NumPoolWorkers + NumCallers)

\* ThreadPool::new(NumPoolWorkers, ..): an empty FirstOut queue, a Barrier
\* of count + 1 parties, every worker in its `for op in queue` loop
ThreadPoolInit ==
    tpool = [queue |-> <<>>,
             wpc |-> [w \in PoolWorkers |-> "next"],
             job |-> [w \in PoolWorkers |-> 0],
             done |-> {},
             submitted |-> 0,
             cpc |-> [c \in Callers |-> "idle"],
             left |-> [c \in Callers |-> 0],
             before |-> [c \in Callers |-> {}],
             arrived |-> {},
             calls |-> 0]

\* the threads that enqueue on and dequeue from one Channel, and the items
\* they enqueue in all
NumChanProducers == 2
NumChanConsumers == 2
MaxItems == 2
ChanProducers == 1..NumChanProducers
ChanConsumers == 1..NumChanConsumers

\* Channel::new: closed false, an empty VecDeque, nobody inside
ChannelInit ==
    chan = [closed |-> FALSE, queue |-> <<>>, waiting |-> {}, by_close |-> {},
            cpc |-> [c \in ChanConsumers |-> "idle"],
            result |-> [c \in ChanConsumers |-> "none"],
            ppc |-> [p \in ChanProducers |-> "idle"],
            sent |-> 0, kpc |-> "idle"]

\* the two versions of AsyncStream, the producers that insert into one
\* stream and the polls its consumer makes in all
StreamImpls == {"stream", "mod"}
NumStreamProducers == 2
MaxStreamPolls == 3
StreamProducers == 1..NumStreamProducers

\* before AsyncStream::new; Inner::new and InnerState::new leave an empty
\* buffer, no waker and item_count 0
StreamInit ==
    strm = [impl |-> "none", buffer |-> <<>>, slot |-> 0, lock |-> 0, item_count |-> 0,
            ppc |-> [p \in StreamProducers |-> "idle"],
            taken |-> [p \in StreamProducers |-> 0],
            cpc |-> "idle", stage |-> "none", polls |-> 0, regs |-> 0,
            invoked |-> [w \in 0..MaxStreamPolls |-> 0]]

\* the two Waker vtables, the handles of one waker (the original and its
\* clones) and the operations made on them in all
WakerImpls == {"executors", "shared"}
NumHandles == 3
MaxWakerOps == 4
WakerHandles == 1..NumHandles

\* before waker_helper is called
WakerInit ==
    wk = [impl |-> "none", strong |-> 0, held |-> [h \in WakerHandles |-> FALSE],
          releases |-> 0, wakes |-> 0, misuse |-> FALSE, ops |-> 0, pc |-> "ok"]


\* SpawnGroup::init, RuntimeEngine::init, AsyncStream::new, Inner::new
Init ==
    /\ ExecutorInit
    /\ WorkerInit
    /\ ExecInit
    /\ EventLoopInit
    /\ BlockOnInit
    /\ GroupsInit
    /\ IndexerInit
    /\ SuspenderInit
    /\ TaskInit
    /\ RcInit
    /\ QueueInit
    /\ OrdInit
    /\ ThreadPoolInit
    /\ ChannelInit
    /\ StreamInit
    /\ WakerInit
    /\ is_cancelled = FALSE
    /\ wait_at_drop = TRUE
    /\ count = 0
    /\ buffer = <<>>
    /\ wakers = FALSE
    /\ item_count = 0
    /\ task_count = 0
    /\ cancelled = FALSE
    /\ iter = <<>>
    /\ engine = <<>>
    /\ tpc = [t \in TaskIds |-> "none"]
    /\ abort_req = [t \in TaskIds |-> FALSE]
    /\ pc = "idle"
    /\ returned = "none"
    /\ yielded = <<>>
    /\ inserted = <<>>
    /\ stale = {}
    /\ prio = [t \in TaskIds |-> 0]

\* ------------------------------------------------- AsyncStream and Inner
\* AsyncStream::increment: item_count.fetch_add(1)
increment(ic) == ic + 1

\* Inner::increment_task_count
increment_task_count(tc) == tc + 1

\* Inner::decrement_task_count: guarded decrement
decrement_task_count(tc) == IF tc > 0 THEN tc - 1 ELSE tc

\* Inner::cancel_tasks: task_count = 0, cancelled = true
cancel_tasks(tc, c) == [task_count |-> 0, cancelled |-> TRUE]

\* AsyncStream::insert_item: push_back under the lock, take the registered
\* waker (if any) and wake it after the lock is released
insert_item(buf, w, v) ==
    [buffer |-> Append(buf, v), wakers |-> FALSE, woke |-> w]

\* poll_item taking the newest item instead of the oldest (pop_back)
poll_item_back(ic, buf, w) ==
    IF ic = 0
    THEN [stage |-> "Empty", value |-> 0, buffer |-> buf, item_count |-> ic, wakers |-> w]
    ELSE IF buf = <<>>
    THEN [stage |-> "Wait", value |-> 0, buffer |-> buf, item_count |-> ic, wakers |-> TRUE]
    ELSE [stage |-> "Ready", value |-> buf[Len(buf)], buffer |-> SubSeq(buf, 1, Len(buf) - 1),
          item_count |-> ic - 1, wakers |-> w]

\* AsyncStream::poll_item: the stage it returns and the stream state it leaves
poll_item(ic, buf, w) ==
    IF ic = 0
    THEN [stage |-> "Empty", value |-> 0, buffer |-> buf, item_count |-> ic, wakers |-> w]
    ELSE IF ic = 0 /\ buf = <<>>
    THEN [stage |-> "Empty", value |-> 0, buffer |-> buf, item_count |-> ic, wakers |-> w]
    ELSE IF buf = <<>>
    THEN [stage |-> "Wait", value |-> 0, buffer |-> buf, item_count |-> ic, wakers |-> TRUE]
    ELSE [stage |-> "Ready", value |-> Head(buf), buffer |-> Tail(buf),
          item_count |-> ic - 1, wakers |-> w]

\* Stream::poll_next for AsyncStream: Stages -> Poll<Option<Item>>
poll_next_result(stage) ==
    CASE stage = "Empty" -> "poll_terminal"
      [] stage = "Wait" -> "poll_pending"
      [] stage = "Ready" -> "poll_item"

\* a first that takes the newest item instead of the oldest (pop_back)
first_item_back(ic, buf) ==
    IF buf = <<>> \/ ic = 0
    THEN [some |-> FALSE, value |-> 0, buffer |-> buf, item_count |-> ic]
    ELSE [some |-> TRUE, value |-> buf[Len(buf)],
          buffer |-> SubSeq(buf, 1, Len(buf) - 1), item_count |-> ic - 1]

\* AsyncStream::first
first_item(ic, buf) ==
    IF buf = <<>> \/ ic = 0
    THEN [some |-> FALSE, value |-> 0, buffer |-> buf, item_count |-> ic]
    ELSE [some |-> TRUE, value |-> Head(buf), buffer |-> Tail(buf), item_count |-> ic - 1]

\* AsyncStream::is_empty as awaited by RuntimeEngine::wait_for_all_tasks:
\* nothing outstanding in the stream
stream_is_empty(ic) == ic = 0

\* ----------------------------------------------------------- SpawnGroup
\* SpawnGroup::increment_count
increment_count(c) == c + 1

\* SpawnGroup::decrement_count_to_zero
decrement_count_to_zero(c) == 0

\* SpawnGroup::is_empty
is_empty(c, tc) == IF c = 0 \/ tc = 0 THEN TRUE ELSE FALSE

\* DiscardingSpawnGroup::is_empty
discarding_is_empty(tc) == IF tc = 0 THEN TRUE ELSE FALSE

\* -------------------------------------------------------- RuntimeEngine
PushJob(p, t) == [kind |-> "Push", task |-> t, priority |-> p]
AbortJob == [kind |-> "Abort", task |-> 0, priority |-> 0]
AwaitJob(t) == [kind |-> "Await", task |-> t, priority |-> 0]

\* ThreadPool::join returns: no job queued or active
EngineIdle == engine = <<>>

\* iter.sort_by(|lhs, rhs| lhs.0.cmp(&rhs.0)): stable, ascending priority
RECURSIVE InsertSorted(_, _)
InsertSorted(s, e) ==
    IF s = <<>> THEN <<e>>
    ELSE IF s[Len(s)][1] <= e[1] THEN Append(s, e)
    ELSE Append(InsertSorted(SubSeq(s, 1, Len(s) - 1), e), s[Len(s)])

RECURSIVE sort_by(_)
sort_by(s) ==
    IF s = <<>> THEN <<>>
    ELSE InsertSorted(sort_by(SubSeq(s, 1, Len(s) - 1)), s[Len(s)])

\* while let Some((_, handle)) = iter.pop(): the handles from the back
RECURSIVE pop_order(_)
pop_order(s) ==
    IF s = <<>> THEN <<>>
    ELSE <<s[Len(s)][2]>> \o pop_order(SubSeq(s, 1, Len(s) - 1))

\* the jobs wait_for_all_tasks executes, in order
RECURSIVE AwaitJobs(_)
AwaitJobs(hs) ==
    IF hs = <<>> THEN <<>> ELSE <<AwaitJob(Head(hs))>> \o AwaitJobs(Tail(hs))

\* wait_for_all_tasks: `if stream.is_empty().await || task_count == 0 { return; }`
wait_returns_early(ic, tc) == stream_is_empty(ic) \/ tc = 0

\* the group state cancel_all acts on
GroupState ==
    [is_cancelled |-> is_cancelled, count |-> count, item_count |-> item_count,
     task_count |-> task_count, iter |-> iter, buffer |-> buffer,
     cancelled |-> cancelled]

\* Shared::cancel_all_tasks for SpawnGroup as a function of the group state:
\* RuntimeEngine::cancel (every handle popped off iter, stream.cancel_tasks()),
\* is_cancelled = true, decrement_count_to_zero
cancel_all_tasks(g) ==
    LET r == cancel_tasks(g.task_count, g.cancelled) IN
    [is_cancelled |-> TRUE, count |-> decrement_count_to_zero(g.count),
     item_count |-> g.item_count, task_count |-> r.task_count, iter |-> <<>>,
     buffer |-> g.buffer, cancelled |-> r.cancelled]

\* -------------------------------------------------- body-thread actions
\* the next unused child id
NextTask == CHOOSE t \in TaskIds : tpc[t] = "none" /\ \A u \in TaskIds : u < t => tpc[u] # "none"

\* Shared::add_task for SpawnGroup: increment_count, then
\* RuntimeEngine::write_task: spawn the producer on the tokio runtime and
\* execute the job that pushes (priority, handle) onto iter
add_task(p) ==
    /\ \E t \in TaskIds : tpc[t] = "none"
    /\ LET t == NextTask IN
        /\ count' = increment_count(count)
        /\ tpc' = [tpc EXCEPT ![t] = "spawned"]
        /\ engine' = Append(engine, PushJob(p, t))
        /\ prio' = [prio EXCEPT ![t] = p]
    /\ returned' = "spawn"
    /\ UNCHANGED <<is_cancelled, wait_at_drop, streamVars, iter, abort_req, pc,
                   yielded, inserted, stale>>

\* SpawnGroup::spawn_task
spawn_task ==
    /\ pc = "idle"
    /\ \E p \in Priorities : add_task(p)

\* a spawn_task_unlessed_cancelled that does not look at is_cancelled
spawn_task_ignoring_cancel ==
    /\ pc = "idle"
    /\ \E p \in Priorities : add_task(p)

\* SpawnGroup::spawn_task_unlessed_cancelled (add_task_unlessed_cancelled)
spawn_task_unlessed_cancelled ==
    /\ pc = "idle"
    /\ IF ~is_cancelled
       THEN \E p \in Priorities : add_task(p)
       ELSE /\ returned' = "spawn_skipped"
            /\ UNCHANGED <<groupVars, streamVars, iter, engine, taskVars, pc, histVars>>

\* SpawnGroup::dont_wait_at_drop
dont_wait_at_drop ==
    /\ pc = "idle"
    /\ wait_at_drop
    /\ wait_at_drop' = FALSE
    /\ returned' = "dont_wait_at_drop"
    /\ UNCHANGED <<is_cancelled, count, streamVars, iter, engine, taskVars, pc, histVars>>

\* a cancel_all that also clears the stream buffer
cancel_all_clearing_buffer ==
    /\ pc = "idle"
    /\ engine' = Append(engine, AbortJob)
    /\ task_count' = 0
    /\ cancelled' = TRUE
    /\ buffer' = <<>>
    /\ pc' = "cancel_poll"
    /\ returned' = "none"
    /\ stale' = Spawned
    /\ UNCHANGED <<groupVars, wakers, item_count, iter, taskVars, yielded, inserted,
                   prio>>

\* SpawnGroup::cancel_all -> cancel_all_tasks -> RuntimeEngine::cancel, up to
\* its poll(): execute the abort job, stream.cancel_tasks()
cancel_all ==
    /\ pc = "idle"
    /\ engine' = Append(engine, AbortJob)
    /\ LET r == cancel_tasks(task_count, cancelled) IN
        /\ task_count' = r.task_count
        /\ cancelled' = r.cancelled
    /\ pc' = "cancel_poll"
    /\ returned' = "none"
    /\ stale' = Spawned
    /\ UNCHANGED <<groupVars, buffer, wakers, item_count, iter, taskVars,
                   yielded, inserted, prio>>

\* RuntimeEngine::cancel's poll() returns; cancel_all_tasks then sets
\* is_cancelled and resets the count
cancel_all_return ==
    /\ pc = "cancel_poll"
    /\ EngineIdle
    /\ is_cancelled' = TRUE
    /\ count' = decrement_count_to_zero(count)
    /\ pc' = "idle"
    /\ returned' = "cancel_all"
    /\ UNCHANGED <<wait_at_drop, streamVars, iter, engine, taskVars, histVars>>

\* SpawnGroup::wait_for_all -> Waitable::wait -> RuntimeEngine::wait_for_all_tasks
wait_for_all ==
    /\ pc = "idle"
    /\ pc' = "wait_poll"
    /\ returned' = "none"
    /\ UNCHANGED <<groupVars, streamVars, iter, engine, taskVars, histVars>>

\* wait_for_all_tasks after its first poll(): return early, or sort iter,
\* pop every handle and execute a job that awaits it
wait_for_all_tasks(next_pc) ==
    /\ EngineIdle
    /\ IF wait_returns_early(item_count, task_count)
       THEN /\ pc' = next_pc
            /\ UNCHANGED <<iter, engine>>
       ELSE /\ engine' = engine \o AwaitJobs(pop_order(sort_by(iter)))
            /\ iter' = <<>>
            /\ pc' = IF next_pc = "wait_return" THEN "wait_poll2" ELSE "drop_poll2"
    /\ returned' = "none"
    /\ UNCHANGED <<groupVars, streamVars, taskVars, histVars>>

wait_for_all_check ==
    /\ pc = "wait_poll"
    /\ wait_for_all_tasks("wait_return")

\* wait_for_all_tasks' final poll() returns
wait_for_all_join ==
    /\ pc = "wait_poll2"
    /\ EngineIdle
    /\ pc' = "wait_return"
    /\ returned' = "none"
    /\ UNCHANGED <<groupVars, streamVars, iter, engine, taskVars, histVars>>

\* Waitable::wait after wait_for_all_tasks: decrement_count_to_zero
wait_for_all_return ==
    /\ pc = "wait_return"
    /\ count' = decrement_count_to_zero(count)
    /\ pc' = "idle"
    /\ returned' = "wait_for_all"
    /\ UNCHANGED <<is_cancelled, wait_at_drop, streamVars, iter, engine, taskVars, histVars>>

\* Stream::poll_next for SpawnGroup (AsyncStream::poll_next / poll_item)
poll_next ==
    /\ pc = "idle"
    /\ LET r == poll_item(item_count, buffer, wakers) IN
        /\ buffer' = r.buffer
        /\ item_count' = r.item_count
        /\ wakers' = r.wakers
        /\ returned' = poll_next_result(r.stage)
        /\ yielded' = IF r.stage = "Ready" THEN Append(yielded, r.value) ELSE yielded
    /\ UNCHANGED <<groupVars, task_count, cancelled, iter, engine, taskVars, pc,
                   inserted, stale, prio>>

\* SpawnGroup::first (AsyncStream::first)
first ==
    /\ pc = "idle"
    /\ LET r == first_item(item_count, buffer) IN
        /\ buffer' = r.buffer
        /\ item_count' = r.item_count
        /\ returned' = IF r.some THEN "first_some" ELSE "first_none"
        /\ yielded' = IF r.some THEN Append(yielded, r.value) ELSE yielded
    /\ UNCHANGED <<groupVars, wakers, task_count, cancelled, iter, engine, taskVars, pc,
                   inserted, stale, prio>>

\* a drop that waits for the children whatever wait_at_drop says
drop_group_always_waiting ==
    /\ pc = "idle"
    /\ pc' = "drop_poll"
    /\ returned' = "none"
    /\ UNCHANGED <<groupVars, streamVars, iter, engine, taskVars, histVars>>

\* impl Drop for SpawnGroup: wait when wait_at_drop, then the engine is dropped
drop_group ==
    /\ pc = "idle"
    /\ pc' = IF wait_at_drop THEN "drop_poll" ELSE "drop_engine"
    /\ returned' = "none"
    /\ UNCHANGED <<groupVars, streamVars, iter, engine, taskVars, histVars>>

\* the wait of impl Drop: RuntimeEngine::wait_for_all_tasks, up to its early
\* return or its execute loop
drop_wait_check ==
    /\ pc = "drop_poll"
    /\ wait_for_all_tasks("drop_engine")

drop_wait_join ==
    /\ pc = "drop_poll2"
    /\ EngineIdle
    /\ pc' = "drop_engine"
    /\ returned' = "none"
    /\ UNCHANGED <<groupVars, streamVars, iter, engine, taskVars, histVars>>

\* impl Drop for RuntimeEngine: poll(); the drop of the group has returned
drop_engine ==
    /\ pc = "drop_engine"
    /\ EngineIdle
    /\ pc' = "dropped"
    /\ returned' = "drop"
    /\ UNCHANGED <<groupVars, streamVars, iter, engine, taskVars, histVars>>

\* ------------------------------------------------ producer (tokio) tasks
\* The tokio Runtime is owned by the engine and is shut down when the engine
\* is dropped; producers are polled only while it is alive.
RuntimeAlive == pc # "dropped"

\* producer, first statement: stream.increment().await
producer_increment(t) ==
    /\ RuntimeAlive
    /\ tpc[t] = "spawned"
    /\ item_count' = increment(item_count)
    /\ task_count' = increment_task_count(task_count)
    /\ tpc' = [tpc EXCEPT ![t] = "user"]
    /\ returned' = "none"
    /\ UNCHANGED <<groupVars, buffer, wakers, cancelled, iter, engine, abort_req,
                   pc, histVars>>

\* producer, second statement: stream.insert_item(task.await).await
\* (the child's result is its id)
producer_insert(t) ==
    /\ RuntimeAlive
    /\ tpc[t] = "user"
    /\ LET r == insert_item(buffer, wakers, t) IN
        /\ buffer' = r.buffer
        /\ wakers' = r.wakers
    /\ inserted' = Append(inserted, t)
    /\ tpc' = [tpc EXCEPT ![t] = "inserted"]
    /\ returned' = "none"
    /\ UNCHANGED <<groupVars, item_count, task_count, cancelled, iter, engine,
                   abort_req, pc, yielded, stale, prio>>

\* producer, third statement: stream.decrement_task_count().await
producer_decrement(t) ==
    /\ RuntimeAlive
    /\ tpc[t] = "inserted"
    /\ task_count' = decrement_task_count(task_count)
    /\ tpc' = [tpc EXCEPT ![t] = "done"]
    \* an abort request that arrived too late dies with the finished producer
    /\ abort_req' = [abort_req EXCEPT ![t] = FALSE]
    /\ returned' = "none"
    /\ UNCHANGED <<groupVars, buffer, wakers, item_count, cancelled, iter, engine,
                   pc, histVars>>

\* JoinHandle abort takes effect: the producer is dropped at an await point
\* (abort is cooperative; a producer that is being polled may go on instead)
producer_aborted(t) ==
    /\ RuntimeAlive
    /\ abort_req[t]
    /\ Running(t)
    /\ tpc' = [tpc EXCEPT ![t] = "aborted"]
    /\ returned' = "none"
    /\ UNCHANGED <<groupVars, streamVars, iter, engine, abort_req, pc,
                   histVars>>

\* ------------------------------------------------------ engine pool jobs
\* the jobs the NumThreads workers have picked up: the first ones queued
ActiveJobs == 1..(IF Len(engine) < NumThreads THEN Len(engine) ELSE NumThreads)

RemoveAt(s, i) == SubSeq(s, 1, i - 1) \o SubSeq(s, i + 1, Len(s))

\* write_task's job: iter.push((priority, task))
engine_push(i) ==
    /\ i \in ActiveJobs
    /\ engine[i].kind = "Push"
    /\ iter' = Append(iter, <<engine[i].priority, engine[i].task>>)
    /\ engine' = RemoveAt(engine, i)
    /\ returned' = "none"
    /\ UNCHANGED <<groupVars, streamVars, taskVars, pc, histVars>>

\* cancel's job: pop every handle off iter and abort it (aborting a producer
\* that has finished has no effect)
engine_abort(i) ==
    /\ i \in ActiveJobs
    /\ engine[i].kind = "Abort"
    /\ abort_req' = [t \in TaskIds |->
                        abort_req[t] \/ (t \in SeqToSet(pop_order(iter)) /\ Running(t))]
    /\ iter' = <<>>
    /\ engine' = RemoveAt(engine, i)
    /\ returned' = "none"
    /\ UNCHANGED <<groupVars, streamVars, tpc, pc, histVars>>

\* wait_for_all_tasks' job: handle.await returns once the producer has
\* finished or has been aborted
engine_await(i) ==
    /\ i \in ActiveJobs
    /\ engine[i].kind = "Await"
    /\ Finished(engine[i].task)
    /\ engine' = RemoveAt(engine, i)
    /\ returned' = "none"
    /\ UNCHANGED <<groupVars, streamVars, iter, taskVars, pc, histVars>>

\* ---------------------------------------------------------- specification
Next ==
    \/ spawn_task /\ UNCHANGED groupFrame
    \/ spawn_task_unlessed_cancelled /\ UNCHANGED groupFrame
    \/ dont_wait_at_drop /\ UNCHANGED groupFrame
    \/ cancel_all /\ UNCHANGED groupFrame
    \/ cancel_all_return /\ UNCHANGED groupFrame
    \/ wait_for_all /\ UNCHANGED groupFrame
    \/ wait_for_all_check /\ UNCHANGED groupFrame
    \/ wait_for_all_join /\ UNCHANGED groupFrame
    \/ wait_for_all_return /\ UNCHANGED groupFrame
    \/ poll_next /\ UNCHANGED groupFrame
    \/ first /\ UNCHANGED groupFrame
    \/ drop_group /\ UNCHANGED groupFrame
    \/ drop_wait_check /\ UNCHANGED groupFrame
    \/ drop_wait_join /\ UNCHANGED groupFrame
    \/ drop_engine /\ UNCHANGED groupFrame
    \/ \E t \in TaskIds : producer_increment(t) /\ UNCHANGED groupFrame
    \/ \E t \in TaskIds : producer_insert(t) /\ UNCHANGED groupFrame
    \/ \E t \in TaskIds : producer_decrement(t) /\ UNCHANGED groupFrame
    \/ \E t \in TaskIds : producer_aborted(t) /\ UNCHANGED groupFrame
    \/ \E i \in 1..NumThreads : engine_push(i) /\ UNCHANGED groupFrame
    \/ \E i \in 1..NumThreads : engine_abort(i) /\ UNCHANGED groupFrame
    \/ \E i \in 1..NumThreads : engine_await(i) /\ UNCHANGED groupFrame

Spec == Init /\ [][Next]_vars

\* The drop of the engine joins the pool; the pool's threads run the jobs
\* they hold, and the thread that drops the group goes on once the pool is
\* idle. The producers get no fairness: a child may never finish.
DropFairSpec ==
    /\ Spec
    /\ WF_vars(drop_engine /\ UNCHANGED groupFrame)
    /\ \A i \in 1..NumThreads :
          /\ WF_vars(engine_push(i) /\ UNCHANGED groupFrame)
          /\ WF_vars(engine_abort(i) /\ UNCHANGED groupFrame)


\* ------------------------------------ Executor (async_runtime/executor.rs)
\* TaskQueue::push
queue_push(q, t) == Append(q, t)

\* the tasks Executor::cancel's `while queue.pop().is_some() {}` removes
RECURSIVE queue_drain(_)
queue_drain(q) == IF q = <<>> THEN {} ELSE {Head(q)} \cup queue_drain(Tail(q))

\* the run thread holds the lock_pair mutex from the moment its condvar wait
\* returned until run() returns (the guard lives to the end of the closure)
ExecutorLockFree == executor.run \in {"waiting", "exited"}

\* Executor::spawn: queue.push(task); if !started { notify() }, and notify
\* stores started = true and spawns the thread that sets the lock and notifies
executor_spawn(t) ==
    /\ executor.pc = "idle"
    /\ executor.task[t] = "none"
    /\ executor' = [executor EXCEPT
            !.queue = queue_push(@, t),
            !.task[t] = "queued",
            !.late = IF executor.cancelled THEN @ \cup {t} ELSE @,
            !.started = TRUE,
            !.notifiers = IF executor.started THEN @ ELSE @ + 1]
    /\ UNCHANGED executorFrame

\* the thread spawned by Executor::notify: lock, *started = true, notify_one
executor_notify ==
    /\ executor.notifiers > 0
    /\ ExecutorLockFree
    /\ executor' = [executor EXCEPT !.lock = TRUE, !.notifiers = @ - 1]
    /\ UNCHANGED executorFrame

\* the thread spawned by Executor::start: its condvar wait returns once the
\* lock holds true, and it calls run()
executor_start ==
    /\ executor.run = "waiting"
    /\ executor.lock
    /\ executor' = [executor EXCEPT !.run = "top"]
    /\ UNCHANGED executorFrame

\* Executor::run, top of the loop: if !cancel { drain the queue } else
\* { poll_all(); return }
executor_run_top ==
    /\ executor.run = "top"
    /\ executor' = [executor EXCEPT
            !.run = IF executor.cancel THEN "joining" ELSE "draining"]
    /\ UNCHANGED executorFrame

\* Executor::run: while let Some(task) = queue.pop() { pool.execute(poll) }
executor_run_pop ==
    /\ executor.run = "draining"
    /\ IF executor.queue = <<>>
       THEN executor' = [executor EXCEPT !.run = "top"]
       ELSE LET t == Head(executor.queue) IN
            executor' = [executor EXCEPT
                !.queue = Tail(@),
                !.pool = @ \cup {t},
                !.task[t] = "pool"]
    /\ UNCHANGED executorFrame

\* the pool job of Executor::run: poll the task; Ready ends it, Pending
\* pushes it back onto the queue
executor_poll(t, ready) ==
    /\ t \in executor.pool
    /\ executor' = [executor EXCEPT
            !.pool = @ \ {t},
            !.task[t] = IF ready THEN "complete" ELSE "queued",
            !.queue = IF ready THEN @ ELSE queue_push(@, t)]
    /\ UNCHANGED executorFrame

\* Executor::run on a set cancel flag: poll_all() (pool.join()) and return
executor_run_return ==
    /\ executor.run = "joining"
    /\ executor.pool = {}
    /\ executor' = [executor EXCEPT !.run = "exited"]
    /\ UNCHANGED executorFrame

\* Executor::cancel, first statement: cancel.store(true)
executor_cancel ==
    /\ executor.pc = "idle"
    /\ executor' = [executor EXCEPT !.cancel = TRUE, !.pc = "cancel_lock"]
    /\ UNCHANGED executorFrame

\* Executor::cancel: *lock_pair.0.lock() = false; store(false)
executor_cancel_lock ==
    /\ executor.pc = "cancel_lock"
    /\ ExecutorLockFree
    /\ executor' = [executor EXCEPT
            !.lock = FALSE, !.started = FALSE, !.pc = "cancel_drain"]
    /\ UNCHANGED executorFrame

\* Executor::cancel: pop the queue empty, cancel.store(false), return
executor_cancel_return ==
    /\ executor.pc = "cancel_drain"
    /\ executor' = [executor EXCEPT
            !.queue = <<>>,
            !.task = [t \in ExecIds |->
                        IF t \in queue_drain(executor.queue) THEN "dropped" ELSE @[t]],
            !.cancel = FALSE,
            !.cancelled = TRUE,
            !.pc = "idle"]
    /\ UNCHANGED executorFrame

ExecutorNext ==
    \/ \E t \in ExecIds : executor_spawn(t)
    \/ executor_notify
    \/ executor_start
    \/ executor_run_top
    \/ executor_run_pop
    \/ \E t \in ExecIds, ready \in BOOLEAN : executor_poll(t, ready)
    \/ executor_run_return
    \/ executor_cancel
    \/ executor_cancel_lock
    \/ executor_cancel_return

ExecutorSpec == Init /\ [][ExecutorNext]_vars

\* ------------------------- UniqueThread (threadpool_impl/thread.rs) and the
\* Suspender of its thread (shared/suspender.rs, shared/waker.rs)

\* Inner::resume (shared/suspender.rs): Initial and Suspended become Notified
resume(state) == IF state \in {"Initial", "Suspended"} THEN "Notified" ELSE state

\* Channel::clear on the inbox: the items are dropped
cleared_tasks(w) ==
    [t \in WorkerIds |-> IF t \in SeqToSet(w.inbox) THEN "cleared" ELSE w.st[t]]

\* UniqueThread::submit_task -> Channel::enqueue: nothing when closed, else
\* push_back
submit_task(t, k) ==
    /\ worker.caller = "idle"
    /\ worker.st[t] = "none"
    /\ worker' = IF worker.closed
                 THEN [worker EXCEPT !.st[t] = "refused", !.kind[t] = k]
                 ELSE [worker EXCEPT !.inbox = Append(@, t),
                                     !.st[t] = "queued", !.kind[t] = k]
    /\ UNCHANGED workerFrame

\* UniqueThread::clear -> Channel::clear
unique_thread_clear ==
    /\ worker.caller = "idle"
    /\ worker.inbox # <<>>
    /\ worker' = [worker EXCEPT !.inbox = <<>>, !.st = cleared_tasks(worker)]
    /\ UNCHANGED workerFrame

\* UniqueThread::end: the channel is closed, waiters are woken
unique_thread_end ==
    /\ worker.caller = "idle"
    /\ ~worker.closed
    /\ worker' = [worker EXCEPT !.closed = TRUE]
    /\ UNCHANGED workerFrame

\* the engine's cancel on the pool, first step: every inbox is cleared
pool_cancel ==
    /\ worker.caller = "idle"
    /\ worker' = [worker EXCEPT !.inbox = <<>>, !.st = cleared_tasks(worker),
                                !.caller = "sentinel", !.op = "cancel"]
    /\ UNCHANGED workerFrame

\* the pool's wait_for_all, first step (also the second step of cancel): a
\* barrier item is pushed into the worker's inbox
pool_wait_for_all ==
    /\ \/ worker.caller = "idle"
       \/ worker.caller = "sentinel"
    /\ worker' = [worker EXCEPT
            !.inbox = IF worker.closed THEN @ ELSE Append(@, BarrierItem),
            !.caller = "arrive",
            !.op = IF worker.caller = "idle" THEN "wait_for_all" ELSE @]
    /\ UNCHANGED workerFrame

\* the caller's barrier.wait(): the barrier has two parties, the caller and
\* the worker; the second to arrive releases both
pool_barrier_wait ==
    /\ worker.caller = "arrive"
    /\ worker' = IF worker.barrier = 1
                 THEN [worker EXCEPT !.barrier = 0, !.pc = "dequeue",
                                     !.caller = "idle"]
                 ELSE [worker EXCEPT !.barrier = 1, !.caller = "waiting"]
    /\ UNCHANGED workerFrame

\* the thread's loop, chan.dequeue(): None when closed (the thread returns),
\* blocks while empty, else pop_front; a task is then driven, a barrier waited
unique_thread_dequeue ==
    /\ worker.pc = "dequeue"
    /\ worker.closed \/ worker.inbox # <<>>
    /\ worker' =
         IF worker.closed THEN [worker EXCEPT !.pc = "exited"]
         ELSE LET item == Head(worker.inbox) IN
              IF item = BarrierItem
              THEN [worker EXCEPT !.inbox = Tail(@), !.pc = "barrier"]
              ELSE [worker EXCEPT !.inbox = Tail(@), !.pc = "poll",
                                  !.cur = item, !.st[item] = "driven"]
    /\ UNCHANGED workerFrame

\* TaskOrBarrier::Barrier: barrier.wait() on the worker
unique_thread_barrier ==
    /\ worker.pc = "barrier"
    /\ worker' = IF worker.barrier = 1
                 THEN [worker EXCEPT !.barrier = 0, !.pc = "dequeue",
                                     !.caller = "idle"]
                 ELSE [worker EXCEPT !.barrier = 1, !.pc = "at_barrier"]
    /\ UNCHANGED workerFrame

\* poll_task (thread.rs:54-63), one task.poll_task(context): Ready returns
\* to the loop of the thread, Pending goes on to suspender.suspend(); a panic
\* unwinds to catch_unwind (thread.rs:40-42) and the loop goes on
poll_task ==
    /\ worker.pc = "poll"
    /\ LET t == worker.cur
           k == worker.kind[t]
           ready == \/ k = "ready"
                    \/ k = "yield" /\ worker.st[t] = "pending"
                    \/ k = "sleep" /\ t \in worker.fired
       IN worker' =
            IF k = "panic"
            THEN [worker EXCEPT !.pc = "dequeue", !.cur = 0, !.st[t] = "panicked"]
            ELSE IF ready
            THEN [worker EXCEPT !.pc = "dequeue", !.cur = 0, !.st[t] = "done"]
            ELSE [worker EXCEPT
                    !.pc = "suspend", !.st[t] = "pending",
                    !.state = IF k = "yield" THEN resume(@) ELSE @,
                    !.timers = IF k = "sleep" THEN @ \cup {t} ELSE @]
    /\ UNCHANGED workerFrame

\* Inner::suspend (shared/suspender.rs:52-75): Initial parks the thread,
\* Notified is consumed and the call returns
suspend ==
    /\ worker.pc = "suspend"
    /\ worker.state \in {"Initial", "Notified"}
    /\ worker' = IF worker.state = "Initial"
                 THEN [worker EXCEPT !.state = "Suspended", !.pc = "parked"]
                 ELSE [worker EXCEPT !.state = "Initial", !.pc = "poll"]
    /\ UNCHANGED workerFrame

\* the wait loop of suspend ends when the state is no longer Suspended
suspend_return ==
    /\ worker.pc = "parked"
    /\ worker.state # "Suspended"
    /\ worker' = [worker EXCEPT !.pc = "poll"]
    /\ UNCHANGED workerFrame

\* another thread calls the waker a sleeping child registered: wake ->
\* Suspender::resume (shared/waker.rs:36-40)
wake(t) ==
    /\ t \in worker.timers
    /\ worker' = [worker EXCEPT !.timers = @ \ {t}, !.fired = @ \cup {t},
                                !.state = resume(@)]
    /\ UNCHANGED workerFrame

WorkerNext ==
    \/ \E t \in WorkerIds, k \in Kinds : submit_task(t, k)
    \/ unique_thread_clear
    \/ unique_thread_end
    \/ pool_cancel
    \/ pool_wait_for_all
    \/ pool_barrier_wait
    \/ unique_thread_dequeue
    \/ unique_thread_barrier
    \/ poll_task
    \/ suspend
    \/ suspend_return
    \/ \E t \in WorkerIds : wake(t)

WorkerSpec == Init /\ [][WorkerNext]_vars

\* ------------------- Executor over a ThreadPool (async_runtime/exec.rs)

\* Channel::enqueue (threadpool_impl/channel.rs): nothing when closed
channel_enqueue(e, t) == IF e.closed THEN e.queue ELSE Append(e.queue, t)

\* Executor::spawn: Task::new and queue.enqueue(task.clone())
exec_spawn(t) ==
    /\ exec.pc = "idle"
    /\ exec.task[t] = "none"
    /\ exec' = [exec EXCEPT !.queue = channel_enqueue(exec, t),
                            !.task[t] = "spawned"]
    /\ UNCHANGED execFrame

\* Executor::run, the head of the loop: queue.dequeue() returns None when the
\* channel is closed (run returns), blocks while it is empty, else pop_front
exec_run_dequeue ==
    /\ exec.run = "dequeue"
    /\ exec.closed \/ exec.queue # <<>>
    /\ exec' = IF exec.closed THEN [exec EXCEPT !.run = "exited"]
               ELSE [exec EXCEPT !.queue = Tail(@), !.run = "submit",
                                 !.held = Head(exec.queue)]
    /\ UNCHANGED execFrame

\* Executor::run, the body of the loop: self.submit(closure) pushes
\* QueueOperation::Ready on the pool's queue
exec_run_submit ==
    /\ exec.run = "submit"
    /\ exec' = [exec EXCEPT !.pool = Append(@, exec.held), !.run = "dequeue",
                            !.held = 0]
    /\ UNCHANGED execFrame

\* the pool's worker, `for op in queue`: Ready(work) is run, Wait goes to the
\* barrier (an empty queue yields NotYet and the loop spins)
pool_worker_next ==
    /\ exec.wpc = "next"
    /\ exec.pool # <<>>
    /\ exec' = IF Head(exec.pool) = WaitOp
               THEN [exec EXCEPT !.pool = Tail(@), !.wpc = "barrier"]
               ELSE [exec EXCEPT !.pool = Tail(@), !.wpc = "work",
                                 !.work = Head(exec.pool)]
    /\ UNCHANGED execFrame

\* the closure of Executor::run on the worker: the task is polled; Ready ends
\* it, Pending puts a clone back with queue.enqueue; a panic of the child
\* unwinds out of work() and out of the worker's loop, which catches nothing:
\* the worker's thread ends
exec_poll(outcome) ==
    /\ exec.wpc = "work"
    /\ LET t == exec.work
           pending == outcome = "pending"
       IN exec' = [exec EXCEPT
            !.wpc = IF outcome = "panic" THEN "dead" ELSE "next",
            !.work = 0,
            !.task[t] = IF outcome = "ready" THEN "complete"
                        ELSE IF pending THEN "pending" ELSE "panicked",
            !.queue = IF pending THEN channel_enqueue(exec, t) ELSE @,
            !.polled_after = IF t \in exec.before THEN @ \cup {t} ELSE @,
            !.requeued_after = IF t \in exec.before /\ pending /\ ~exec.closed
                               THEN @ \cup {t} ELSE @]
    /\ UNCHANGED execFrame

\* QueueOperation::Wait on the worker: barrier.wait(), two parties
pool_worker_barrier ==
    /\ exec.wpc = "barrier"
    /\ exec' = IF exec.barrier = 1
               THEN [exec EXCEPT !.barrier = 0, !.wpc = "next",
                                 !.pc = "cancel_pool_clear"]
               ELSE [exec EXCEPT !.barrier = 1, !.wpc = "at_barrier"]
    /\ UNCHANGED execFrame

\* Executor::cancel, self.pool.clear(): the pool's queue is emptied
exec_cancel ==
    /\ exec.pc = "idle"
    /\ exec' = [exec EXCEPT !.pool = <<>>, !.pc = "cancel_queue_clear",
                            !.calling = {t \in ExecIds : exec.task[t] # "none"}]
    /\ UNCHANGED execFrame

\* Executor::cancel, self.queue.clear()
exec_cancel_queue_clear ==
    /\ exec.pc = "cancel_queue_clear"
    /\ exec' = [exec EXCEPT !.queue = <<>>, !.pc = "poll_all"]
    /\ UNCHANGED execFrame

\* Executor::poll_all -> ThreadPool::wait_for_all: a Wait for each worker
exec_poll_all ==
    /\ exec.pc = "poll_all"
    /\ exec' = [exec EXCEPT !.pool = Append(@, WaitOp), !.pc = "barrier"]
    /\ UNCHANGED execFrame

\* ThreadPool::wait_for_all: self.barrier.wait() of the caller
exec_barrier_wait ==
    /\ exec.pc = "barrier"
    /\ exec' = IF exec.barrier = 1
               THEN [exec EXCEPT !.barrier = 0, !.wpc = "next",
                                 !.pc = "cancel_pool_clear"]
               ELSE [exec EXCEPT !.barrier = 1, !.pc = "at_barrier"]
    /\ UNCHANGED execFrame

\* Executor::cancel, the second self.pool.clear()
exec_cancel_pool_clear ==
    /\ exec.pc = "cancel_pool_clear"
    /\ exec' = [exec EXCEPT !.pool = <<>>, !.pc = "cancel_return"]
    /\ UNCHANGED execFrame

\* Executor::cancel, the second self.queue.clear(), and the return
exec_cancel_return ==
    /\ exec.pc = "cancel_return"
    /\ exec' = [exec EXCEPT !.queue = <<>>, !.pc = "idle",
                            !.before = @ \cup exec.calling]
    /\ UNCHANGED execFrame

\* Executor::end: queue.clear() and queue.close()
exec_end ==
    /\ exec.pc = "idle"
    /\ ~exec.closed
    /\ exec' = [exec EXCEPT !.queue = <<>>, !.closed = TRUE]
    /\ UNCHANGED execFrame

ExecNext ==
    \/ \E t \in ExecIds : exec_spawn(t)
    \/ exec_run_dequeue
    \/ exec_run_submit
    \/ pool_worker_next
    \/ \E outcome \in {"ready", "pending", "panic"} : exec_poll(outcome)
    \/ pool_worker_barrier
    \/ exec_cancel
    \/ exec_cancel_queue_clear
    \/ exec_poll_all
    \/ exec_barrier_wait
    \/ exec_cancel_pool_clear
    \/ exec_cancel_return
    \/ exec_end

ExecSpec == Init /\ [][ExecNext]_vars

\* ----- EventLoop (threadpool_impl/eventloop.rs) over the PriorityQueue
\* (threadpool_impl/queue.rs); storage index i of the code is s[i + 1] here

\* the comparator of the two queues: lhs.priority() > rhs.priority()
compare_fn(lhs, rhs) == lhs.p > rhs.p

\* VecDeque::swap
storage_swap(s, i, j) == [s EXCEPT ![i + 1] = s[j + 1], ![j + 1] = s[i + 1]]

\* PriorityQueue::up_heap: parent_idx = the_idx / 2
RECURSIVE up_heap(_, _)
up_heap(s, the_idx) ==
    IF the_idx = 0 THEN s
    ELSE LET parent_idx == the_idx \div 2 IN
         IF ~compare_fn(s[the_idx + 1], s[parent_idx + 1]) THEN s
         ELSE up_heap(storage_swap(s, the_idx, parent_idx), parent_idx)

\* PriorityQueue::down_heap: left_idx = 2 * the_idx, right_idx = left_idx + 1
RECURSIVE down_heap(_, _)
down_heap(s, the_idx) ==
    LET left_idx == 2 * the_idx
        right_idx == 2 * the_idx + 1
    IN IF left_idx >= Len(s) THEN s
       ELSE LET l1 == IF compare_fn(s[left_idx + 1], s[the_idx + 1])
                      THEN left_idx ELSE the_idx
                largest_idx == IF right_idx < Len(s)
                                  /\ compare_fn(s[right_idx + 1], s[l1 + 1])
                               THEN right_idx ELSE l1
            IN IF largest_idx = the_idx THEN s
               ELSE down_heap(storage_swap(s, the_idx, largest_idx), largest_idx)

\* PriorityQueue::push
queue_heap_push(s, val) == up_heap(Append(s, val), Len(s))

\* PriorityQueue::pop on a non-empty queue: what is left after pop_front
queue_heap_pop(s) == IF Tail(s) = <<>> THEN <<>> ELSE down_heap(Tail(s), 0)

\* the priorities of the tasks of a queue that were submitted while the
\* worker was running a task
task_priorities(s, busy) == {s[i].p : i \in {j \in 1..Len(s) : s[j].id \in busy}}

\* EventLoop::submit_task -> Inner::enqueue: push under the lock, notify_one
eventloop_submit_task(t, p) ==
    /\ eloop.caller = "idle"
    /\ eloop.st[t] = "none"
    /\ eloop' = [eloop EXCEPT
            !.inbox = queue_heap_push(@, [id |-> t, p |-> p]),
            !.busy = IF eloop.pc = "block_on" THEN @ \cup {t} ELSE @,
            !.st[t] = "queued"]
    /\ UNCHANGED eloopFrame

\* tasks of a queue that is cleared are dropped
eventloop_dropped(e) ==
    [t \in LoopIds |-> IF \E i \in 1..Len(e.inbox) : e.inbox[i].id = t
                       THEN "cleared" ELSE e.st[t]]

\* EventLoop::clear -> Inner::clear
eventloop_clear ==
    /\ eloop.caller = "idle"
    /\ eloop.inbox # <<>>
    /\ eloop' = [eloop EXCEPT !.inbox = <<>>, !.st = eventloop_dropped(eloop)]
    /\ UNCHANGED eloopFrame

\* EventLoop::end -> Inner::end: m_running false, clear, notify_all
eventloop_end ==
    /\ eloop.caller = "idle"
    /\ eloop.m_running
    /\ eloop' = [eloop EXCEPT !.m_running = FALSE, !.inbox = <<>>,
                              !.st = eventloop_dropped(eloop)]
    /\ UNCHANGED eloopFrame

\* the pool's wait_for_all: a barrier item of priority Wait is pushed into the
\* inbox
eventloop_wait_for_all ==
    /\ eloop.caller = "idle"
    /\ eloop.m_running
    /\ eloop' = [eloop EXCEPT
            !.inbox = queue_heap_push(@, [id |-> BarrierItem, p |-> TaskPriorityWait]),
            !.caller = "arrive"]
    /\ UNCHANGED eloopFrame

\* the caller's barrier.wait(), two parties
eventloop_barrier_wait ==
    /\ eloop.caller = "arrive"
    /\ eloop' = IF eloop.barrier = 1
                THEN [eloop EXCEPT !.barrier = 0, !.pc = "pop", !.caller = "idle"]
                ELSE [eloop EXCEPT !.barrier = 1, !.caller = "waiting"]
    /\ UNCHANGED eloopFrame

\* Inner::start, the block under the lock: wait while the inbox is empty and
\* m_running, then swap the inbox with the (empty) read_buffer
eventloop_swap ==
    /\ eloop.pc = "wait"
    /\ eloop.inbox # <<>> \/ ~eloop.m_running
    /\ eloop' = [eloop EXCEPT !.inbox = eloop.read_buffer,
                              !.read_buffer = eloop.inbox, !.pc = "pop"]
    /\ UNCHANGED eloopFrame

\* Inner::start, `while let Some(task) = read_buffer.pop()`: the next item is
\* taken from the read_buffer; None ends the inner loop, read_buffer.clear(),
\* and the outer loop tests m_running
eventloop_pop ==
    /\ eloop.pc = "pop"
    /\ eloop' =
         IF eloop.read_buffer = <<>>
         THEN [eloop EXCEPT !.pc = IF eloop.m_running THEN "wait" ELSE "exited"]
         ELSE LET task == Head(eloop.read_buffer) IN
              [eloop EXCEPT
                 !.read_buffer = queue_heap_pop(@),
                 !.cur = task,
                 !.waiting = task_priorities(eloop.inbox, eloop.busy)
                             \cup task_priorities(Tail(eloop.read_buffer), eloop.busy),
                 !.st = IF task.id = BarrierItem THEN @
                        ELSE [@ EXCEPT ![task.id] = "running"],
                 !.pc = IF task.id = BarrierItem THEN "barrier" ELSE "block_on"]
    /\ UNCHANGED eloopFrame

\* TaskOrBarrier::Task: catch_unwind(|| block_on(task, waker_pair)) has
\* returned, the child having completed or panicked
eventloop_block_on(outcome) ==
    /\ eloop.pc = "block_on"
    /\ eloop' = [eloop EXCEPT !.st[eloop.cur.id] = outcome, !.pc = "pop"]
    /\ UNCHANGED eloopFrame

\* TaskOrBarrier::Barrier: barrier.wait() on the loop's thread
eventloop_barrier ==
    /\ eloop.pc = "barrier"
    /\ eloop' = IF eloop.barrier = 1
                THEN [eloop EXCEPT !.barrier = 0, !.pc = "pop", !.caller = "idle"]
                ELSE [eloop EXCEPT !.barrier = 1, !.pc = "at_barrier"]
    /\ UNCHANGED eloopFrame

EventLoopNext ==
    \/ \E t \in LoopIds, p \in TaskPriorities : eventloop_submit_task(t, p)
    \/ eventloop_clear
    \/ eventloop_end
    \/ eventloop_wait_for_all
    \/ eventloop_barrier_wait
    \/ eventloop_swap
    \/ eventloop_pop
    \/ \E outcome \in {"done", "panicked"} : eventloop_block_on(outcome)
    \/ eventloop_barrier

EventLoopSpec == Init /\ [][EventLoopNext]_vars

\* -------- block_on (executors/future_executor.rs) over the Parker
\* (executors/parker.rs) and the Waker of executors/waker.rs

\* Inner::unpark: state.swap(NOTIFIED); a PARKED thread is then notified
unpark(state) == NOTIFIED

\* the outcomes of a use of the waker: defined while the Arc is alive, any of
\* Dangling once its strong count has reached 0
waker_use(b) == IF b.strong > 0 THEN {"works"} ELSE Dangling

\* block_on(future) is called on the thread; the thread-local pair is kept
\* from one call to the next
block_on(f, n) ==
    /\ blk.pc \in {"idle", "returned"}
    /\ blk.calls < MaxCalls
    /\ (f = "wait") = (n > 0)
    /\ blk' = [blk EXCEPT !.pc = "poll", !.fut = f, !.remaining = n,
                          !.yield_now = FALSE, !.calls = @ + 1,
                          !.pendings = 0, !.parks = 0, !.output = 0]
    /\ UNCHANGED blkFrame

\* future.as_mut().poll(&mut context) of the loop: Ready returns the output;
\* Pending goes on to parker.park(). The Yielder calls wake_by_ref before its
\* Pending (yield_now/yielder.rs); a waiting future clones the waker first
\* (WakerHelper::clone_waker drops the Arc it cloned: the strong count stays)
block_on_poll(ub) ==
    /\ blk.pc = "poll"
    /\ ub \in waker_use(blk)
    /\ blk' =
         CASE blk.fut = "ready" ->
                [blk EXCEPT !.pc = "returned", !.output = 1]
           [] blk.fut = "yield" /\ blk.yield_now ->
                [blk EXCEPT !.pc = "returned", !.output = 2]
           [] blk.fut = "yield" /\ ~blk.yield_now ->
                [blk EXCEPT
                    !.yield_now = TRUE,
                    !.state = IF ub = "works" THEN unpark(@) ELSE @,
                    !.pendings = @ + 1,
                    !.pc = IF ub = "crash" THEN "crashed" ELSE "park"]
           [] blk.fut = "wait" /\ blk.remaining = 0 /\ blk.clones = 0 ->
                [blk EXCEPT !.pc = "returned", !.output = 3]
           [] blk.fut = "wait" /\ blk.clones > 0 ->
                [blk EXCEPT !.pendings = @ + 1, !.pc = "park"]
           [] OTHER ->
                [blk EXCEPT
                    !.remaining = @ - 1,
                    !.clones = IF ub = "crash" THEN @ ELSE @ + 1,
                    !.pendings = @ + 1,
                    !.pc = IF ub = "crash" THEN "crashed" ELSE "park"]
    /\ UNCHANGED blkFrame

\* Inner::park, the fast path: compare_exchange(NOTIFIED, EMPTY)
park ==
    /\ blk.pc = "park"
    /\ blk' = IF blk.state = NOTIFIED
              THEN [blk EXCEPT !.state = EMPTY, !.parks = @ + 1, !.pc = "poll"]
              ELSE [blk EXCEPT !.parks = @ + 1, !.pc = "park_lock"]
    /\ UNCHANGED blkFrame

\* Inner::park under the lock: compare_exchange(EMPTY, PARKED) and the wait
\* on the condvar, or Err(NOTIFIED): swap(EMPTY) and return
park_lock ==
    /\ blk.pc = "park_lock"
    /\ blk.state \in {EMPTY, NOTIFIED}
    /\ blk' = IF blk.state = EMPTY
              THEN [blk EXCEPT !.state = PARKED, !.pc = "parked"]
              ELSE [blk EXCEPT !.state = EMPTY, !.pc = "poll"]
    /\ UNCHANGED blkFrame

\* Inner::park, the loop after cvar.wait: compare_exchange(NOTIFIED, EMPTY)
\* succeeds and park returns
park_return ==
    /\ blk.pc = "parked"
    /\ blk.state = NOTIFIED
    /\ blk' = [blk EXCEPT !.state = EMPTY, !.pc = "poll"]
    /\ UNCHANGED blkFrame

\* another thread wakes the clone it holds: WakerHelper::wake takes the Arc
\* from the pointer, calls the closure (unparker.unpark()) and drops the Arc,
\* which takes one off the strong count
waker_wake(ub) ==
    /\ blk.clones > 0
    /\ blk.pc # "crashed"
    /\ ub \in waker_use(blk)
    /\ blk' = [blk EXCEPT
            !.clones = @ - 1,
            !.strong = IF @ > 0 THEN @ - 1 ELSE @,
            !.state = IF ub = "works" THEN unpark(@) ELSE @,
            !.pc = IF ub = "crash" THEN "crashed" ELSE @]
    /\ UNCHANGED blkFrame

BlockOnNext ==
    \/ \E f \in Futures, n \in 0..MaxPending : block_on(f, n)
    \/ \E ub \in Dangling : block_on_poll(ub)
    \/ park
    \/ park_lock
    \/ park_return
    \/ \E ub \in Dangling : waker_wake(ub)

BlockOnSpec == Init /\ [][BlockOnNext]_vars

\* ---------- the constructors of SpawnGroup, ErrSpawnGroup and
\* DiscardingSpawnGroup and the wait_at_drop field they set

\* the value each constructor gives wait_at_drop: SpawnGroup::init (and new,
\* which calls it) and DiscardingSpawnGroup::init write true,
\* ErrSpawnGroup::new and DiscardingSpawnGroup::new write false
constructed_wait_at_drop(c) == c \in {"SpawnGroup::init", "DiscardingSpawnGroup::init"}

\* a constructor runs
group_new(c) ==
    /\ ~groups[c].built
    /\ groups' = [groups EXCEPT ![c] =
            [built |-> TRUE, is_cancelled |-> FALSE,
             wait_at_drop |-> constructed_wait_at_drop(c),
             opted_out |-> FALSE, dropped |-> "no"]]
    /\ UNCHANGED groupsFrame

\* dont_wait_at_drop of the three groups: wait_at_drop = false
group_dont_wait_at_drop(c) ==
    /\ groups[c].built
    /\ groups[c].dropped = "no"
    /\ groups' = [groups EXCEPT ![c].wait_at_drop = FALSE,
                                ![c].opted_out = TRUE]
    /\ UNCHANGED groupsFrame

\* cancel_all of the three groups: is_cancelled = true, wait_at_drop untouched
group_cancel_all(c) ==
    /\ groups[c].built
    /\ groups[c].dropped = "no"
    /\ groups' = [groups EXCEPT ![c].is_cancelled = TRUE]
    /\ UNCHANGED groupsFrame

\* Drop of the three groups: the children are waited for if wait_at_drop
group_drop(c) ==
    /\ groups[c].built
    /\ groups[c].dropped = "no"
    /\ groups' = [groups EXCEPT ![c].dropped =
            IF groups[c].wait_at_drop THEN "waited" ELSE "did_not_wait"]
    /\ UNCHANGED groupsFrame

GroupsNext ==
    \/ \E c \in Constructors : group_new(c)
    \/ \E c \in Constructors : group_dont_wait_at_drop(c)
    \/ \E c \in Constructors : group_cancel_all(c)
    \/ \E c \in Constructors : group_drop(c)

GroupsSpec == Init /\ [][GroupsNext]_vars

\* ------------------------- ThreadPool::new and Indexer (threadpool_impl/index.rs)
\* ThreadPool::new(count, wait_type): None when count is 0, otherwise a pool
\* of count workers
thread_pool_new(n) ==
    /\ indexer.pool = "none"
    /\ indexer' = [indexer EXCEPT !.requested = n,
                                  !.pool = IF n = 0 THEN "None" ELSE "Some"]
    /\ UNCHANGED indexerFrame

\* Indexer::new(count): index 0 and last_index count - 1.  count - 1 on a
\* usize of 0 panics with "attempt to subtract with overflow" where overflow
\* checks are on and wraps to usize::MAX where they are off
indexer_new(n, profile) ==
    /\ indexer.built = "no"
    /\ indexer' = [indexer EXCEPT
                      !.count = n,
                      !.built = IF n = 0 /\ profile = "debug" THEN "panicked" ELSE "yes",
                      !.wrapped = (n = 0 /\ profile = "release"),
                      !.last_index = IF n = 0 THEN 0 ELSE n - 1,
                      !.index = 0]
    /\ UNCHANGED indexerFrame

\* compare_exchange(last_index, 0): a wrapped last_index is usize::MAX, which
\* the counter cannot reach within MaxNext calls
cas_succeeds(ix) == ~ix.wrapped /\ ix.index = ix.last_index

\* Indexer::next, first step: the compare_exchange; on success the counter is
\* 0 and next returns 0, on failure the thread goes on to the fetch_add
indexer_next_cas(t) ==
    /\ indexer.built = "yes"
    /\ indexer.tpc[t] = "idle"
    /\ indexer.calls < MaxNext
    /\ IF cas_succeeds(indexer)
          THEN indexer' = [indexer EXCEPT !.index = 0,
                                         !.calls = @ + 1,
                                         !.callers = @ \cup {t},
                                         !.returns = Append(@, 0)]
          ELSE indexer' = [indexer EXCEPT !.tpc[t] = "fetch_add",
                                         !.calls = @ + 1,
                                         !.callers = @ \cup {t}]
    /\ UNCHANGED indexerFrame

\* Indexer::next, second step: fetch_add(1) returns the counter's old value
indexer_next_fetch_add(t) ==
    /\ indexer.tpc[t] = "fetch_add"
    /\ indexer' = [indexer EXCEPT !.tpc[t] = "idle",
                                  !.index = @ + 1,
                                  !.returns = Append(@, indexer.index)]
    /\ UNCHANGED indexerFrame

IndexerNext ==
    \/ \E n \in 0..MaxWorkers : thread_pool_new(n)
    \/ \E n \in 0..MaxWorkers, profile \in Profiles : indexer_new(n, profile)
    \/ \E t \in Submitters : indexer_next_cas(t)
    \/ \E t \in Submitters : indexer_next_fetch_add(t)

IndexerSpec == Init /\ [][IndexerNext]_vars


\* ------------------ Suspender (shared/suspender.rs, executors/suspender.rs)
\* pair(): a Suspender in state Initial and the resumer that shares it
suspender_pair(i) ==
    /\ susp.impl = "none"
    /\ susp' = [susp EXCEPT !.impl = i, !.state = "Initial"]
    /\ UNCHANGED suspFrame

\* Inner::suspend up to the first cvar.wait, under the lock: Initial becomes
\* Suspended and the thread waits; Notified is consumed and suspend returns;
\* Suspended panics
inner_suspend ==
    /\ susp.impl # "none"
    /\ susp.pc = "idle"
    /\ susp.suspends < MaxSuspends
    /\ susp' = [susp EXCEPT
                   !.suspends = @ + 1,
                   !.state = CASE susp.state = "Initial" -> "Suspended"
                               [] susp.state = "Notified" -> "Initial"
                               [] OTHER -> @,
                   !.pc = CASE susp.state = "Initial" -> "waiting"
                            [] susp.state = "Notified" -> "idle"
                            [] OTHER -> "panicked",
                   !.signalled = FALSE,
                   !.returns = IF susp.state = "Notified" THEN @ + 1 ELSE @,
                   !.last = CASE susp.state = "Initial" -> "parked"
                              [] susp.state = "Notified" -> "consumed"
                              [] OTHER -> "panic"]
    /\ UNCHANGED suspFrame

\* the state suspend leaves behind after its wait loop: executors/suspender.rs
\* stores Empty after the loop, shared/suspender.rs stores nothing
state_after_wait(i, state) == IF i = "executors" THEN "Initial" ELSE state

\* Inner::suspend from the cvar.wait on: the notified thread takes the lock
\* again, leaves the loop when the state is no longer Suspended and returns
inner_suspend_wake ==
    /\ susp.pc = "waiting"
    /\ susp.signalled
    /\ susp.state # "Suspended"
    /\ susp' = [susp EXCEPT !.pc = "idle",
                            !.signalled = FALSE,
                            !.state = state_after_wait(susp.impl, @),
                            !.returns = @ + 1,
                            !.last = "waited"]
    /\ UNCHANGED suspFrame

\* a resume that notifies a waiting thread only and stores nothing otherwise
resumed_state_only_suspended(state) ==
    IF state = "Suspended" THEN "Notified" ELSE state

\* the state resume stores: Notified unless it is Notified already
resumed_state(state) == IF state # "Notified" THEN "Notified" ELSE state

\* whether resume calls cvar.notify_one: shared/suspender.rs in state
\* Suspended only, executors/suspender.rs whenever it stores Notified
resume_notifies(i, state) ==
    IF i = "shared" THEN state = "Suspended" ELSE state # "Notified"

\* Inner::resume, under the lock, by thread r
inner_resume(r) ==
    /\ susp.impl # "none"
    /\ susp.pc # "panicked"
    /\ susp.resumes < MaxResumes
    /\ susp' = [susp EXCEPT
                   !.resumes = @ + 1,
                   !.state = resumed_state(@),
                   !.signalled = @ \/ (susp.pc = "waiting"
                                        /\ resume_notifies(susp.impl, susp.state)),
                   !.last = "resume",
                   !.by = r]
    /\ UNCHANGED suspFrame

SuspenderNext ==
    \/ \E i \in SuspenderImpls : suspender_pair(i)
    \/ inner_suspend
    \/ inner_suspend_wake
    \/ \E r \in Resumers : inner_resume(r)

SuspenderSpec == Init /\ [][SuspenderNext]_vars

\* cvar.notify_one wakes the thread waiting in cvar.wait, which then runs
SuspenderFairSpec == SuspenderSpec /\ WF_vars(inner_suspend_wake)


\* ------------------------------------------- Task (async_runtime/task.rs)
\* Executor::spawn: Task::new, a clone goes on the executor's queue and the
\* task itself back to the engine; n is the number of times the future
\* returns Pending before it returns Ready
task_new(n) ==
    /\ ~task_inner.created
    /\ task_inner' = [task_inner EXCEPT !.created = TRUE, !.remaining = n,
                                        !.queued = 1]
    /\ UNCHANGED taskInnerFrame

\* Executor::run: the handle leaves the queue and the closure submitted to
\* the pool starts to poll it on worker t
run_dequeue(t) ==
    /\ task_inner.created
    /\ task_inner.tpc[t] = "idle"
    /\ task_inner.queued > 0
    /\ task_inner.entries < MaxPolls
    /\ task_inner' = [task_inner EXCEPT !.queued = @ - 1,
                                        !.entries = @ + 1,
                                        !.via[t] = "run",
                                        !.tpc[t] = "spin",
                                        !.result[t] = "none"]
    /\ UNCHANGED taskInnerFrame

\* block_task: return when the task is completed, otherwise go on to poll it
block_task(t) ==
    /\ task_inner.created
    /\ task_inner.tpc[t] = "idle"
    /\ task_inner.entries < MaxPolls
    /\ task_inner' = [task_inner EXCEPT
                        !.entries = @ + 1,
                        !.via[t] = "block_task",
                        !.result[t] = "none",
                        !.tpc[t] = IF task_inner.complete THEN "idle" ELSE "spin"]
    /\ UNCHANGED taskInnerFrame

\* a poll_task that enters the poll without taking the latch
poll_task_acquire_unlatched(t) ==
    /\ task_inner.tpc[t] = "spin"
    /\ task_inner' = [task_inner EXCEPT
                        !.poll_check = 1,
                        !.tpc[t] = "polling",
                        !.polled_after = @ \/ task_inner.complete]
    /\ UNCHANGED taskInnerFrame

\* Task::poll_task: the compare_exchange(0, 1) that succeeds; a thread whose
\* compare_exchange fails stays in the spin loop
poll_task_acquire(t) ==
    /\ task_inner.tpc[t] = "spin"
    /\ task_inner.poll_check = 0
    /\ task_inner' = [task_inner EXCEPT
                        !.poll_check = 1,
                        !.tpc[t] = "polling",
                        !.polled_after = @ \/ task_inner.complete]
    /\ UNCHANGED taskInnerFrame

\* what the future returns when polled: Pending while it has work left, then
\* Ready once; after that whatever the future does when polled again
poll_outcomes(ti) ==
    IF ti.finished THEN AfterReady
    ELSE IF ti.remaining > 0 THEN {"pending"} ELSE {"ready"}

\* Task::poll_task: the poll of the future; a panic unwinds out of poll_task
poll_future(t, outcome) ==
    /\ task_inner.tpc[t] = "polling"
    /\ outcome \in poll_outcomes(task_inner)
    /\ task_inner' = [task_inner EXCEPT
                        !.remaining = IF ~task_inner.finished /\ @ > 0 THEN @ - 1 ELSE @,
                        !.finished = @ \/ outcome = "ready",
                        !.result[t] = outcome,
                        !.unwound = @ \/ outcome = "panic",
                        !.tpc[t] = IF outcome = "panic" THEN "unwound" ELSE "polled"]
    /\ UNCHANGED taskInnerFrame

\* Task::poll_task: if result.is_ready() { self.complete() }
poll_task_complete(t) ==
    /\ task_inner.tpc[t] = "polled"
    /\ task_inner' = [task_inner EXCEPT
                        !.complete = @ \/ task_inner.result[t] = "ready",
                        !.completes = IF task_inner.result[t] = "ready" THEN @ + 1 ELSE @,
                        !.tpc[t] = "releasing"]
    /\ UNCHANGED taskInnerFrame

\* Task::poll_task: poll_check.store(0) and return of the result
poll_task_release(t) ==
    /\ task_inner.tpc[t] = "releasing"
    /\ task_inner' = [task_inner EXCEPT !.poll_check = 0, !.tpc[t] = "returned"]
    /\ UNCHANGED taskInnerFrame

\* Executor::run, the closure after the poll: Pending puts a clone of the
\* task back on the queue
run_closure_end(t) ==
    /\ task_inner.tpc[t] = "returned"
    /\ task_inner.via[t] = "run"
    /\ task_inner' = [task_inner EXCEPT
                        !.queued = IF task_inner.result[t] = "pending" THEN @ + 1 ELSE @,
                        !.tpc[t] = "idle"]
    /\ UNCHANGED taskInnerFrame

\* block_task, the loop after the poll: Ready returns, Pending parks
block_task_loop(t) ==
    /\ task_inner.tpc[t] = "returned"
    /\ task_inner.via[t] = "block_task"
    /\ task_inner' = [task_inner EXCEPT
                        !.tpc[t] = IF task_inner.result[t] = "ready" THEN "idle" ELSE "parked"]
    /\ UNCHANGED taskInnerFrame

\* block_task: park returns after the waker has been used, and the loop
\* polls again
block_task_unpark(t) ==
    /\ task_inner.tpc[t] = "parked"
    /\ task_inner' = [task_inner EXCEPT !.tpc[t] = "spin"]
    /\ UNCHANGED taskInnerFrame

TaskNext ==
    \/ \E n \in 0..MaxPending : task_new(n)
    \/ \E t \in Pollers : run_dequeue(t)
    \/ \E t \in Pollers : block_task(t)
    \/ \E t \in Pollers : poll_task_acquire(t)
    \/ \E t \in Pollers, outcome \in AfterReady : poll_future(t, outcome)
    \/ \E t \in Pollers : poll_task_complete(t)
    \/ \E t \in Pollers : poll_task_release(t)
    \/ \E t \in Pollers : run_closure_end(t)
    \/ \E t \in Pollers : block_task_loop(t)
    \/ \E t \in Pollers : block_task_unpark(t)

TaskSpec == Init /\ [][TaskNext]_vars


\* ------------------------------- Task handles: Rc<Inner> sent across threads
\* the number of handles that exist
handle_count(r) == LET sum[t \in 0..NumHolders] ==
                         IF t = 0 THEN 0 ELSE sum[t - 1] + r.handles[t]
                   IN sum[NumHolders]

\* a read of the strong count: the cell's value while the allocation is
\* live; any value once it has been freed (the read is of freed memory)
strong_read(r) == IF r.freed > 0 THEN 0..(MaxRcOps + 2) ELSE {r.strong}

\* Executor::spawn: Task::new allocates the Rc with strong count 1, the
\* clone put on the queue makes it 2; the queue's handle goes to the
\* worker that runs the polling closure (thread 2), the other stays with
\* the caller (thread 1).  Both happen on the caller's thread.
rc_spawn ==
    /\ ~rc.created
    /\ rc' = [rc EXCEPT !.created = TRUE, !.strong = 2,
                        !.handles = [t \in Holders |-> IF t \in {1, 2} THEN 1 ELSE 0]]
    /\ UNCHANGED rcFrame

\* Task::clone (Rc::clone, inc_strong), first half: read the strong count.
\* Rc's count is a plain Cell: the read and the write are two steps that
\* other threads' steps can come between, since Task is Send.
rc_clone_read(t) ==
    /\ rc.created
    /\ rc.tpc[t] = "idle"
    /\ rc.handles[t] > 0
    /\ rc.ops < MaxRcOps
    /\ \E v \in strong_read(rc) :
          rc' = [rc EXCEPT !.tmp[t] = v, !.tpc[t] = "inc", !.ops = @ + 1]
    /\ UNCHANGED rcFrame

\* Task::clone, second half: write the count read plus one; the thread owns
\* one more handle
rc_clone_write(t) ==
    /\ rc.tpc[t] = "inc"
    /\ rc' = [rc EXCEPT !.strong = rc.tmp[t] + 1,
                        !.handles[t] = @ + 1,
                        !.tpc[t] = "idle"]
    /\ UNCHANGED rcFrame

\* drop of a Task (Rc::drop, dec_strong), first half: read the strong count
rc_drop_read(t) ==
    /\ rc.created
    /\ rc.tpc[t] = "idle"
    /\ rc.handles[t] > 0
    /\ rc.ops < MaxRcOps
    /\ \E v \in strong_read(rc) :
          rc' = [rc EXCEPT !.tmp[t] = v, !.tpc[t] = "dec", !.ops = @ + 1]
    /\ UNCHANGED rcFrame

\* drop of a Task, second half of dec_strong: write the count read minus one
\* (a usize: 0 - 1 wraps or panics; the count is left at 0 here)
rc_drop_write(t) ==
    /\ rc.tpc[t] = "dec"
    /\ rc' = [rc EXCEPT !.strong = IF rc.tmp[t] > 0 THEN rc.tmp[t] - 1 ELSE 0,
                        !.tpc[t] = "check"]
    /\ UNCHANGED rcFrame

\* drop of a Task, the end: if the strong count now reads 0, Inner is
\* dropped (Drop for Inner: Box::from_raw(ptr) frees the future); the
\* handle is gone
rc_drop_check(t) ==
    /\ rc.tpc[t] = "check"
    /\ \E v \in strong_read(rc) :
          rc' = [rc EXCEPT !.freed = IF v = 0 THEN @ + 1 ELSE @,
                          !.handles[t] = @ - 1,
                          !.tpc[t] = "idle"]
    /\ UNCHANGED rcFrame

RcNext ==
    \/ rc_spawn
    \/ \E t \in Holders : rc_clone_read(t)
    \/ \E t \in Holders : rc_clone_write(t)
    \/ \E t \in Holders : rc_drop_read(t)
    \/ \E t \in Holders : rc_drop_write(t)
    \/ \E t \in Holders : rc_drop_check(t)

RcSpec == Init /\ [][RcNext]_vars


\* ----------------------------- PriorityQueue (threadpool_impl/queue.rs)
\* PriorityQueue::push of a new element with priority p
pq_push(p) ==
    /\ pq.pushed < MaxHeap
    /\ LET val == [id |-> pq.pushed + 1, p |-> p] IN
       pq' = [pq EXCEPT !.storage = queue_heap_push(@, val),
                        !.before = pq.storage,
                        !.last = "push",
                        !.result = val,
                        !.pushed = @ + 1]
    /\ UNCHANGED pqFrame

\* PriorityQueue::pop: None when empty, otherwise pop_front and down_heap(0)
pq_pop ==
    /\ pq' = [pq EXCEPT
                 !.storage = IF pq.storage = <<>> THEN <<>> ELSE queue_heap_pop(@),
                 !.before = pq.storage,
                 !.last = "pop",
                 !.result = IF pq.storage = <<>> THEN None ELSE Head(pq.storage)]
    /\ UNCHANGED pqFrame

QueueNext ==
    \/ \E p \in TaskPriorityLevels : pq_push(p)
    \/ pq_pop

QueueSpec == Init /\ [][QueueNext]_vars


\* --------- PrioritizedTask (shared/priority_task.rs) and TaskPriority
\* impl From<Priority> for TaskPriority
task_priority_from(value) ==
    CASE value = BACKGROUND -> TaskPriorityBackground
      [] value = LOW -> TaskPriorityLow
      [] value = UTILITY -> TaskPriorityUtility
      [] value = MEDIUM -> TaskPriorityMedium
      [] value = HIGH -> TaskPriorityHigh
      [] value = USERINITIATED -> TaskPriorityUserInitiated

\* the derived Ord of TaskPriority: by declaration order
task_priority_cmp(x, y) ==
    IF x < y THEN "Less" ELSE IF x = y THEN "Equal" ELSE "Greater"

\* Option::Some
Some(x) == <<x>>

\* PartialEq for PrioritizedTask: self.priority == other.priority
prioritized_eq(self, other) == self = other

\* Ord for PrioritizedTask: other.priority.cmp(&self.priority)
prioritized_cmp(self, other) == task_priority_cmp(other, self)

\* PartialOrd for PrioritizedTask: Some(other.cmp(self))
prioritized_partial_cmp(self, other) == Some(prioritized_cmp(other, self))

\* PrioritizedTask::new with the priority converted from the user's Priority
prioritized_task_new(side, value) ==
    /\ ord' = [ord EXCEPT ![side] = task_priority_from(value),
                          !.op = "from",
                          !.value = value,
                          !.result = task_priority_from(value)]
    /\ UNCHANGED ordFrame

\* PrioritizedTask::new_with: the barrier sentinel, at the Wait level
prioritized_task_new_with(side) ==
    /\ ord' = [ord EXCEPT ![side] = TaskPriorityWait,
                          !.op = "new_with",
                          !.result = TaskPriorityWait]
    /\ UNCHANGED ordFrame

\* lhs == rhs
ord_eq ==
    /\ ord' = [ord EXCEPT !.op = "eq", !.result = prioritized_eq(ord.lhs, ord.rhs)]
    /\ UNCHANGED ordFrame

\* lhs.cmp(&rhs)
ord_cmp ==
    /\ ord' = [ord EXCEPT !.op = "cmp", !.result = prioritized_cmp(ord.lhs, ord.rhs)]
    /\ UNCHANGED ordFrame

\* lhs.partial_cmp(&rhs)
ord_partial_cmp ==
    /\ ord' = [ord EXCEPT !.op = "partial_cmp",
                          !.result = prioritized_partial_cmp(ord.lhs, ord.rhs)]
    /\ UNCHANGED ordFrame

OrdNext ==
    \/ \E side \in Sides, value \in PriorityValues : prioritized_task_new(side, value)
    \/ \E side \in Sides : prioritized_task_new_with(side)
    \/ ord_eq
    \/ ord_cmp
    \/ ord_partial_cmp

OrdSpec == Init /\ [][OrdNext]_vars

\* ---------------- ThreadPool over one shared queue (threadpool/threadpool.rs)
\* Barrier::wait of a party on the pool's Barrier of count + 1 parties: the
\* party that completes the count releases everybody waiting and the count
\* starts again; any other party blocks
barrier_wait(b, party) ==
    LET here == b.arrived \cup {party} IN
    IF Cardinality(here) = NumPoolWorkers + 1
    THEN [b EXCEPT
            !.arrived = {},
            !.wpc = [w \in PoolWorkers |-> IF w \in here THEN "next" ELSE @[w]],
            !.cpc = [c \in Callers |-> IF c \in here THEN "returned" ELSE @[c]]]
    ELSE [b EXCEPT
            !.arrived = here,
            !.wpc = [w \in PoolWorkers |-> IF w = party THEN "barrier" ELSE @[w]],
            !.cpc = [c \in Callers |-> IF c = party THEN "barrier" ELSE @[c]]]

\* ThreadPool::submit: queue.enqueue(QueueOperation::Ready(task))
thread_pool_submit(c) ==
    /\ tpool.cpc[c] \in {"idle", "returned"}
    /\ tpool.submitted < MaxWork
    /\ tpool' = [tpool EXCEPT
            !.queue = Append(@, tpool.submitted + 1),
            !.submitted = @ + 1,
            !.cpc[c] = "idle"]
    /\ UNCHANGED tpoolFrame

\* ThreadPool::wait_for_all is entered: `for _ in 0..self.count`
thread_pool_wait_for_all(c) ==
    /\ tpool.cpc[c] \in {"idle", "returned"}
    /\ tpool.calls < MaxWaitCalls
    /\ tpool' = [tpool EXCEPT
            !.cpc[c] = "enqueue",
            !.left[c] = NumPoolWorkers,
            !.before[c] = 1..tpool.submitted,
            !.calls = @ + 1]
    /\ UNCHANGED tpoolFrame

\* wait_for_all: one queue.enqueue(QueueOperation::Wait) of the loop
thread_pool_enqueue_wait(c) ==
    /\ tpool.cpc[c] = "enqueue"
    /\ tpool' = [tpool EXCEPT
            !.queue = Append(@, WaitOp),
            !.left[c] = @ - 1,
            !.cpc[c] = IF tpool.left[c] = 1 THEN "enter" ELSE @]
    /\ UNCHANGED tpoolFrame

\* wait_for_all: self.barrier.wait()
thread_pool_barrier_wait(c) ==
    /\ tpool.cpc[c] = "enter"
    /\ tpool' = barrier_wait(tpool, c)
    /\ UNCHANGED tpoolFrame

\* start: the worker's `for op in queue`: an empty queue yields NotYet and
\* the loop goes on; Ready(work) is run, Wait goes to barrier.wait()
start_next(w) ==
    /\ tpool.wpc[w] = "next"
    /\ tpool.queue # <<>>
    /\ LET op == Head(tpool.queue)
           rest == [tpool EXCEPT !.queue = Tail(@)] IN
       tpool' = IF op = WaitOp
                THEN barrier_wait(rest, w)
                ELSE [rest EXCEPT !.wpc[w] = "work", !.job[w] = op]
    /\ UNCHANGED tpoolFrame

\* start: work() returns
start_work(w) ==
    /\ tpool.wpc[w] = "work"
    /\ tpool' = [tpool EXCEPT
            !.done = @ \cup {tpool.job[w]},
            !.job[w] = 0,
            !.wpc[w] = "next"]
    /\ UNCHANGED tpoolFrame

ThreadPoolNext ==
    \/ \E c \in Callers : thread_pool_submit(c)
    \/ \E c \in Callers : thread_pool_wait_for_all(c)
    \/ \E c \in Callers : thread_pool_enqueue_wait(c)
    \/ \E c \in Callers : thread_pool_barrier_wait(c)
    \/ \E w \in PoolWorkers : start_next(w)
    \/ \E w \in PoolWorkers : start_work(w)

ThreadPoolSpec == Init /\ [][ThreadPoolNext]_vars

\* ------------------------- Channel (threadpool_impl/channel.rs), several
\* producers, several consumers and one closing thread
\* Condvar::notify_all in Inner::close: the consumers it wakes
close_wakes_nobody(waiting) == {}

close_wakes(waiting) == waiting

\* Inner::enqueue, up to the lock: `if self.closed.load(Relaxed) { return; }`
enqueue_check(p) ==
    /\ chan.ppc[p] = "idle"
    /\ chan.sent < MaxItems
    /\ chan' = [chan EXCEPT
            !.sent = @ + 1,
            !.ppc[p] = IF chan.closed THEN "idle" ELSE "lock"]
    /\ UNCHANGED chanFrame

\* Inner::enqueue under the lock: push_back, and notify_one when the push
\* made the length 1 (the item is the id of its producer)
enqueue_push(p, c) ==
    /\ chan.ppc[p] = "lock"
    /\ LET notifies == Len(chan.queue) = 0 /\ chan.waiting # {} IN
        /\ IF notifies THEN c \in chan.waiting ELSE c = CHOOSE x \in ChanConsumers : TRUE
        /\ chan' = [chan EXCEPT
                !.queue = Append(@, p),
                !.ppc[p] = "idle",
                !.waiting = IF notifies THEN @ \ {c} ELSE @,
                !.cpc[c] = IF notifies THEN "woken" ELSE @]
    /\ UNCHANGED chanFrame

\* Inner::dequeue, up to the lock: `if self.closed.load(Relaxed) { return None; }`
dequeue_check(c) ==
    /\ chan.cpc[c] = "idle"
    /\ chan' = [chan EXCEPT
            !.cpc[c] = IF chan.closed THEN "idle" ELSE "lock",
            !.result[c] = IF chan.closed THEN "None" ELSE "none"]
    /\ UNCHANGED chanFrame

\* Inner::dequeue under the lock, on entry and after each return of
\* cvar.wait: while the queue is empty return None when closed or wait
\* (which gives the lock up); pop_front when it is not empty
dequeue_lock(c) ==
    /\ chan.cpc[c] \in {"lock", "woken"}
    /\ chan' =
         IF chan.queue # <<>>
         THEN [chan EXCEPT !.queue = Tail(@), !.cpc[c] = "idle", !.result[c] = "Some"]
         ELSE IF chan.closed
         THEN [chan EXCEPT !.cpc[c] = "idle", !.result[c] = "None"]
         ELSE [chan EXCEPT !.cpc[c] = "wait", !.waiting = @ \cup {c}]
    /\ UNCHANGED chanFrame

\* Inner::close: `if self.closed.swap(true, Relaxed) { return; }`
close_swap ==
    /\ chan.kpc = "idle"
    /\ chan' = [chan EXCEPT
            !.closed = TRUE,
            !.kpc = IF chan.closed THEN "done" ELSE "notify"]
    /\ UNCHANGED chanFrame

\* Inner::close under the lock: notify_all
close_notify ==
    /\ chan.kpc = "notify"
    /\ LET woken == close_wakes(chan.waiting) IN
       chan' = [chan EXCEPT
            !.kpc = "done",
            !.waiting = @ \ woken,
            !.by_close = @ \cup woken,
            !.cpc = [c \in ChanConsumers |-> IF c \in woken THEN "woken" ELSE @[c]]]
    /\ UNCHANGED chanFrame

ChannelNext ==
    \/ \E p \in ChanProducers : enqueue_check(p)
    \/ \E p \in ChanProducers, c \in ChanConsumers : enqueue_push(p, c)
    \/ \E c \in ChanConsumers : dequeue_check(c)
    \/ \E c \in ChanConsumers : dequeue_lock(c)
    \/ close_swap
    \/ close_notify

ChannelSpec == Init /\ [][ChannelNext]_vars

\* a thread that holds or can take the mutex goes on: the closing thread
\* reaches its notify_all, and a consumer that entered dequeue or was woken
\* takes the lock again
ChannelFairSpec ==
    /\ ChannelSpec
    /\ WF_vars(close_notify)
    /\ \A c \in ChanConsumers : WF_vars(dequeue_lock(c))

\* ------------- AsyncStream: the lock, the waker slot and the wake-up
\* (async_stream/stream.rs and async_stream/mod.rs)
\* AsyncStream::new of either file
async_stream_new(i) ==
    /\ strm.impl = "none"
    /\ strm' = [strm EXCEPT !.impl = i]
    /\ UNCHANGED strmFrame

\* an insert_item that leaves the waker it wakes in the slot
peek_waker(slot) == [waker |-> slot, slot |-> slot]

\* insert_item: inner_lock.wakers.take()
take_waker(slot) == [waker |-> slot, slot |-> 0]

\* a poll that registers its waker also when it found an item
poll_locked_registering(s, w) ==
    IF s.item_count = 0 /\ s.buffer = <<>>
    THEN [s EXCEPT !.stage = "Empty"]
    ELSE IF s.buffer = <<>>
    THEN [s EXCEPT !.slot = w, !.regs = w, !.stage = "Wait"]
    ELSE [s EXCEPT !.slot = w, !.regs = w, !.buffer = Tail(@),
                   !.item_count = @ - 1, !.stage = "Ready"]

\* the async block of poll_item once it holds the lock: Empty, or the front
\* item and fetch_sub, or the waker w put in the slot and Wait
poll_locked(s, w) ==
    IF s.item_count = 0 /\ s.buffer = <<>>
    THEN [s EXCEPT !.stage = "Empty"]
    ELSE IF s.buffer = <<>>
    THEN [s EXCEPT !.slot = w, !.regs = w, !.stage = "Wait"]
    ELSE [s EXCEPT !.buffer = Tail(@), !.item_count = @ - 1, !.stage = "Ready"]

\* the producer of write_task: stream.increment()
stream_increment(p) ==
    /\ strm.impl # "none"
    /\ strm.ppc[p] = "idle"
    /\ strm' = [strm EXCEPT !.item_count = @ + 1, !.ppc[p] = "insert"]
    /\ UNCHANGED strmFrame

\* insert_item under the lock: push_back and take the waker; without a
\* waker it returns, which gives the lock up
insert_item_push(p) ==
    /\ strm.ppc[p] = "insert"
    /\ strm.lock = 0
    /\ LET t == take_waker(strm.slot) IN
       strm' = [strm EXCEPT
            !.buffer = Append(@, p),
            !.slot = t.slot,
            !.taken[p] = t.waker,
            !.lock = IF t.waker = 0 THEN 0 ELSE p,
            !.ppc[p] = IF t.waker = 0 THEN "done" ELSE "took"]
    /\ UNCHANGED strmFrame

\* insert_item of stream.rs: drop(inner_lock) before the wake
insert_item_drop_lock(p) ==
    /\ strm.impl = "stream"
    /\ strm.ppc[p] = "took"
    /\ strm' = [strm EXCEPT !.lock = 0, !.ppc[p] = "wake"]
    /\ UNCHANGED strmFrame

\* insert_item: waker.wake(); in mod.rs the guard is still alive and is
\* dropped when the function returns
insert_item_wake(p) ==
    /\ \/ strm.impl = "stream" /\ strm.ppc[p] = "wake"
       \/ strm.impl = "mod" /\ strm.ppc[p] = "took"
    /\ strm' = [strm EXCEPT
            !.invoked[strm.taken[p]] = @ + 1,
            !.lock = IF @ = p THEN 0 ELSE @,
            !.ppc[p] = "done"]
    /\ UNCHANGED strmFrame

\* poll_next -> poll_item: in stream.rs `if self.item_count() == 0` returns
\* Ready(Empty); the poll of mod.rs goes straight to the lock
poll_item_check ==
    /\ strm.impl # "none"
    /\ strm.cpc = "idle"
    /\ strm.polls < MaxStreamPolls
    /\ strm' = IF strm.impl = "stream" /\ strm.item_count = 0
               THEN [strm EXCEPT !.polls = @ + 1, !.stage = "Empty"]
               ELSE [strm EXCEPT !.polls = @ + 1, !.stage = "none", !.cpc = "lock"]
    /\ UNCHANGED strmFrame

\* poll_item: the one poll of the async block. With the lock held by an
\* insert_item the block is Pending and is dropped, and poll_next wakes its
\* own waker by reference; otherwise the block runs under the lock
poll_item_lock ==
    /\ strm.cpc = "lock"
    /\ strm' = IF strm.lock # 0
               THEN [strm EXCEPT !.cpc = "idle", !.stage = "Pending"]
               ELSE [poll_locked(strm, strm.regs + 1) EXCEPT !.cpc = "idle"]
    /\ UNCHANGED strmFrame

StreamNext ==
    \/ \E i \in StreamImpls : async_stream_new(i)
    \/ \E p \in StreamProducers : stream_increment(p)
    \/ \E p \in StreamProducers : insert_item_push(p)
    \/ \E p \in StreamProducers : insert_item_drop_lock(p)
    \/ \E p \in StreamProducers : insert_item_wake(p)
    \/ poll_item_check
    \/ poll_item_lock

StreamSpec == Init /\ [][StreamNext]_vars

\* ------------- the Waker vtable (executors/waker.rs and shared/waker.rs)
\* over the Arc of the wake state; handle 1 is the waker waker_helper
\* returned, the others are its clones
\* waker_helper: Arc::into_raw(Arc::new(f)), strong count 1
waker_helper(i) ==
    /\ wk.impl = "none"
    /\ wk' = [wk EXCEPT !.impl = i, !.strong = 1, !.held[1] = TRUE]
    /\ UNCHANGED wkFrame

\* the strong count after clone_waker: shared/waker.rs keeps the Arc it
\* cloned (Arc::into_raw(cloned)); WakerHelper::clone_waker of
\* executors/waker.rs drops it at once (`_ = arc.clone();`)
cloned_strong(i, strong) == IF i = "shared" THEN strong + 1 ELSE strong

\* a use of a handle after the Arc was released: undefined behaviour
use_after_release(w, frees, ub) ==
    [w EXCEPT
        !.misuse = TRUE,
        !.releases = IF frees /\ ub = "works" /\ @ < MaxWakerOps THEN @ + 1 ELSE @,
        !.pc = IF ub = "crash" THEN "crashed" ELSE @]

\* Arc::drop of one reference: the state is released when the count
\* reaches 0
arc_drop(w) ==
    [w EXCEPT !.strong = @ - 1, !.releases = IF w.strong = 1 THEN @ + 1 ELSE @]

\* clone_waker through handle h: a new handle g on the same pointer
clone_waker(h, g, ub) ==
    /\ wk.pc = "ok" /\ wk.ops < MaxWakerOps
    /\ wk.held[h] /\ ~wk.held[g]
    /\ LET w == [wk EXCEPT !.ops = @ + 1, !.held[g] = ub # "crash" \/ wk.strong > 0] IN
       wk' = IF wk.strong > 0
             THEN [w EXCEPT !.strong = cloned_strong(wk.impl, @)]
             ELSE use_after_release(w, FALSE, ub)
    /\ UNCHANGED wkFrame

\* wake: Arc::from_raw, the wake-up, and the drop of the Arc; the handle is
\* consumed
waker_wake_by_value(h, ub) ==
    /\ wk.pc = "ok" /\ wk.ops < MaxWakerOps
    /\ wk.held[h]
    /\ LET w == [wk EXCEPT !.ops = @ + 1, !.held[h] = FALSE] IN
       wk' = IF wk.strong > 0
             THEN arc_drop([w EXCEPT !.wakes = @ + 1])
             ELSE use_after_release(w, TRUE, ub)
    /\ UNCHANGED wkFrame

\* wake_by_ref: the wake-up through a ManuallyDrop: the count is untouched
wake_by_ref(h, ub) ==
    /\ wk.pc = "ok" /\ wk.ops < MaxWakerOps
    /\ wk.held[h]
    /\ LET w == [wk EXCEPT !.ops = @ + 1] IN
       wk' = IF wk.strong > 0
             THEN [w EXCEPT !.wakes = @ + 1]
             ELSE use_after_release(w, FALSE, ub)
    /\ UNCHANGED wkFrame

\* drop_waker: drop(Arc::from_raw(ptr))
drop_waker(h, ub) ==
    /\ wk.pc = "ok" /\ wk.ops < MaxWakerOps
    /\ wk.held[h]
    /\ LET w == [wk EXCEPT !.ops = @ + 1, !.held[h] = FALSE] IN
       wk' = IF wk.strong > 0
             THEN arc_drop(w)
             ELSE use_after_release(w, TRUE, ub)
    /\ UNCHANGED wkFrame

WakerNext ==
    \/ \E i \in WakerImpls : waker_helper(i)
    \/ \E h, g \in WakerHandles, ub \in Dangling : clone_waker(h, g, ub)
    \/ \E h \in WakerHandles, ub \in Dangling : waker_wake_by_value(h, ub)
    \/ \E h \in WakerHandles, ub \in Dangling : wake_by_ref(h, ub)
    \/ \E h \in WakerHandles, ub \in Dangling : drop_waker(h, ub)

WakerSpec == Init /\ [][WakerNext]_vars


\* ------------------------------------------------------------ properties
\* C1: with wait_at_drop true, the drop of the group returns only after
\* every child spawned on the group has completed or has been cancelled; no
\* child is still to be polled once the drop has returned.
C1_DropWaitsForChildren ==
    (pc = "dropped" /\ wait_at_drop) => \A t \in Spawned : Finished(t)

\* C2: without cancellation, when the stream returns terminal the consumer
\* has been yielded exactly one item per spawned child: none lost, none
\* duplicated.
C2_StreamYieldsEveryResult ==
    (returned = "poll_terminal" /\ ~cancelled) =>
        /\ SeqToSet(yielded) = Spawned
        /\ Len(yielded) = Cardinality(Spawned)

\* C3: the consumer is yielded the results in the order the producers
\* inserted them: what has been yielded, followed by what the buffer still
\* holds, is the insertion sequence.
C3_FifoOfCompletion == yielded \o buffer = inserted

\* C3 witness: child 2 inserted its result before child 1 did, and the
\* consumer was yielded both, in that order.
C3_Witness == inserted = <<2, 1>> /\ yielded = <<2, 1>>

\* C4: poll_next returns terminal only with outstanding 0 and an empty
\* buffer, returns Pending with an empty buffer and outstanding > 0, and never
\* returns terminal while a spawned, uncancelled child has not delivered its
\* result.
C4_TerminalOnlyWhenDelivered ==
    /\ returned = "poll_terminal" => (item_count = 0 /\ buffer = <<>>)
    /\ returned = "poll_pending" => (item_count > 0 /\ buffer = <<>>)
    /\ (returned = "poll_terminal" /\ ~cancelled) =>
            \A t \in Spawned : tpc[t] \in {"inserted", "done"}

\* C5: the outstanding counter is incremented before spawn_task returns, so
\* it is at least 1 for as long as a spawned child has not delivered its
\* result.
C5_IncrementBeforeReturn ==
    (\E t \in TaskIds : tpc[t] \in {"spawned", "user"}) => item_count >= 1

\* C6: after a complete scope without cancellation (every child completed and
\* the stream drained to terminal, or wait_for_all returned) the task count
\* is 0 and is_empty() is true for the value, error and discarding groups.
C6_CompleteScopeIsEmpty ==
    (/\ ~cancelled
     /\ \/ returned = "wait_for_all"
        \/ returned = "poll_terminal" /\ \A t \in Spawned : tpc[t] = "done") =>
        /\ task_count = 0
        /\ is_empty(count, task_count)
        /\ discarding_is_empty(task_count)

\* C7: is_empty() is false exactly when some child spawned on the group is
\* still running, and true when none is (so also before the first spawn).
C7_IsEmptyTracksRunning ==
    pc = "idle" => (is_empty(count, task_count) <=> ~(\E t \in TaskIds : Running(t)))

\* C8: wait_for_all returns only after every child spawned before the call
\* has been driven to completion.
C8_WaitForAllWaits ==
    returned = "wait_for_all" => \A t \in Spawned : Finished(t)

\* C9: wait_for_all discards no result: after spawning, calling wait_for_all
\* (which leaves the count at 0) and iterating to terminal without
\* cancellation, the consumer has been yielded the result of every child.
C9_WaitForAllKeepsResults ==
    /\ returned = "wait_for_all" => yielded \o buffer = inserted
    /\ (returned = "poll_terminal" /\ count = 0 /\ ~cancelled) =>
            /\ buffer = <<>>
            /\ SeqToSet(yielded) = Spawned

\* C10: cancel_all is idempotent over (is_cancelled, count, outstanding
\* counters, iter, buffer, stream cancelled flag): when a cancel_all call has
\* returned, the group is in the state a further cancel_all call leaves it in.
C10_CancelAllIdempotent ==
    returned = "cancel_all" => cancel_all_tasks(GroupState) = GroupState

\* a spawn_task_unlessed_cancelled call on a cancelled group changes nothing
SkippedSpawn ==
    (spawn_task_unlessed_cancelled /\ is_cancelled) =>
        UNCHANGED <<groupVars, streamVars, iter, engine, taskVars, histVars>>

\* C11: once cancel_all has returned, is_cancelled stays true, and every
\* later spawn_task_unlessed_cancelled call creates no task, submits nothing
\* to the pool and leaves the count, the counters and the stream unchanged.
C11_SpawnUnlessCancelledNoOp ==
    [][(is_cancelled => is_cancelled') /\ SkippedSpawn]_vars

\* C11 witness: spawn_task_unlessed_cancelled has returned on a cancelled
\* group that holds one child spawned before the cancel_all.
C11_Witness ==
    /\ returned = "spawn_skipped" /\ is_cancelled
    /\ Cardinality(Spawned) = 1

\* C12: a child spawned with spawn_task after cancel_all has returned is
\* submitted to the executor and polled: it never sits in the executor's
\* queue when the thread that serves the queue has returned.
C12_SpawnAfterCancelIsPolled ==
    \A t \in executor.late :
        executor.task[t] = "queued" => executor.run # "exited"

\* the steps of a cancel_all call: the call, its abort job, its return
CancelStep ==
    cancel_all \/ cancel_all_return \/ (\E i \in 1..NumThreads : engine_abort(i))

\* C13: cancellation does not drain the buffered stream: no step of
\* cancel_all changes the buffer or the item count, the stream reports
\* terminal only with an empty buffer, and what has been yielded followed by
\* the buffer stays the insertion sequence.
C13_CancelKeepsBuffer ==
    /\ [][CancelStep => UNCHANGED <<buffer, item_count, yielded>>]_vars
    /\ [](returned \in {"poll_terminal", "first_none"} /\ cancelled
            => buffer = <<>>)
    /\ [](cancelled => yielded \o buffer = inserted)

\* C13 witness: cancel_all has returned and the two results delivered by
\* the children are still in the buffer.
C13_Witness == returned = "cancel_all" /\ Len(buffer) = 2

\* C14: cancel terminates although an in-flight child never becomes ready:
\* while the cancel waits at the pool's barrier, the worker is not parked for
\* good on a child that stays Pending with no wake outstanding.
C14_CancelLeavesPollLoop ==
    ~(/\ worker.op = "cancel"
      /\ worker.caller = "waiting"
      /\ worker.pc = "parked"
      /\ worker.state = "Suspended"
      /\ worker.kind[worker.cur] = "never"
      /\ worker.timers = {})

\* C15: after a cancel has returned, no task spawned before that cancel is
\* polled again, and none is put back into the Executor's queue.
C15_NoPollAfterCancel ==
    exec.polled_after = {} /\ exec.requeued_after = {}

\* C16: among the tasks submitted while the worker was running a task:
\* whenever the worker has picked its next task, no task of strictly higher
\* priority was waiting for that worker at the moment of the pick.
C16_PicksHighestPriority ==
    (eloop.pc = "block_on" /\ eloop.cur.id \in eloop.busy)
        => \A p \in eloop.waiting : p <= eloop.cur.p

\* C17: a panic inside a polled child does not kill the worker, so a later
\* wait_for_all of the pool returns: the caller is never left waiting at the
\* barrier for a worker whose thread has ended.
C17_PanicKeepsWorker ==
    ~(exec.wpc = "dead" /\ exec.pc = "at_barrier")

\* C18: block_on terminates with the output when every Pending poll is
\* followed by a wake: the thread never crashes, and it is never parked with
\* every wake already made and none left to come.
C18_BlockOnReturns ==
    /\ blk.pc # "crashed"
    /\ ~(blk.pc = "parked" /\ blk.state = PARKED /\ blk.clones = 0)

\* C19: every constructed group, whatever its type and constructor, has
\* wait_at_drop true as long as dont_wait_at_drop has not been called on it.
C19_WaitOnDropByDefault ==
    \A c \in Constructors :
        (groups[c].built /\ ~groups[c].opted_out) => groups[c].wait_at_drop

\* C20: a drop after dont_wait_at_drop does not wait for the children: it
\* goes straight to the drop of the engine, no job of the engine it joins
\* awaits a child, and the drop returns although children may never finish.
DroppingNoWait == pc = "drop_engine" /\ ~wait_at_drop
C20_DropWithoutWaiting ==
    /\ [][(drop_group /\ ~wait_at_drop) => pc' = "drop_engine"]_vars
    /\ [](DroppingNoWait => \A i \in 1..Len(engine) : engine[i].kind # "Await")
    /\ DroppingNoWait ~> (pc = "dropped")
C20_Witness ==
    /\ pc = "dropped"
    /\ ~wait_at_drop
    /\ \E t \in Spawned : ~Finished(t)

\* C21: building a pool with size 0 aborts with a diagnostic: it never
\* returns an absent pool (None) and never yields a pool or an Indexer for
\* 0 workers, so every pool and Indexer that exists has N > 0.
C21_ZeroSizeAborts ==
    /\ indexer.pool # "None"
    /\ (indexer.pool = "Some" => indexer.requested > 0)
    /\ (indexer.built = "yes" => indexer.count > 0)

\* C29: with a single submitter the k-th call of next (k = 0, 1, 2, ...)
\* returns k mod N.
C29_RoundRobin ==
    (indexer.built = "yes" /\ indexer.count > 0 /\ Cardinality(indexer.callers) <= 1)
        => \A k \in 1..Len(indexer.returns) :
              indexer.returns[k] = (k - 1) % indexer.count

\* C30: with concurrent callers of next every returned index is in 0..N-1
\* and the shared counter never exceeds N-1.
C30_IndexInRange ==
    (indexer.built = "yes" /\ indexer.count > 0)
        => /\ \A k \in 1..Len(indexer.returns) :
                 indexer.returns[k] \in 0..(indexer.count - 1)
           /\ indexer.index <= indexer.count - 1

\* a step of resume, and a step that enters suspend
ResumeStep == susp'.resumes = susp.resumes + 1
SuspendStep == susp'.suspends = susp.suspends + 1

\* C22: no wake-up is lost: resume in state Initial stores Notified, in
\* state Suspended stores Notified and notifies the waiter, in state
\* Notified changes nothing; a suspend that finds Notified consumes it and
\* returns without waiting; a suspend that parked returns once a resume has
\* occurred after it parked.
C22_NoLostWakeup ==
    /\ [][ResumeStep =>
            /\ susp.state = "Initial" => susp'.state = "Notified"
            /\ susp.state = "Suspended" =>
                   (susp'.state = "Notified" /\ susp'.signalled)
            /\ susp.state = "Notified" =>
                   (susp'.state = "Notified" /\ susp'.signalled = susp.signalled)]_vars
    /\ [][(SuspendStep /\ susp.state = "Notified") =>
            /\ susp'.state = "Initial"
            /\ susp'.pc = "idle"
            /\ susp'.returns = susp.returns + 1]_vars
    /\ [](susp.pc = "waiting" /\ susp.state = "Notified" => susp.signalled)
    /\ (susp.pc = "waiting" /\ susp.state = "Notified") ~> (susp.pc = "idle")

\* a suspend parked, a resume followed, and the suspend has returned
C22_Witness ==
    susp.last = "waited" /\ susp.returns = 1 /\ susp.resumes = 1

\* C23: after a suspend that waited returns the state is Initial again, and
\* each resume lets at most one suspend return.
C23_ResetAfterWait ==
    /\ susp.last = "waited" => susp.state = "Initial"
    /\ susp.returns <= susp.resumes

\* the threads inside the poll of the future, and the threads between the
\* compare_exchange of poll_task and its store of 0
InPoll == {t \in Pollers : task_inner.tpc[t] = "polling"}
HoldsLatch == {t \in Pollers : task_inner.tpc[t] \in {"polling", "polled", "releasing"}}

C25_NoPollAfterCompleted ==
    /\ ~task_inner.polled_after
    /\ task_inner.completes <= 1

\* C26: the erased future is dropped exactly once, when the last handle is
\* released: never while a handle still exists, never twice, and it has been
\* dropped once every handle is gone.
C26_FutureDroppedOnce ==
    /\ rc.freed <= 1
    /\ rc.freed > 0 => handle_count(rc) = 0
    /\ (rc.created /\ handle_count(rc) = 0) => rc.freed = 1

\* the elements of a storage
Elements(st) == {st[i] : i \in 1..Len(st)}

\* C27: each pop returns an element whose priority is maximal among the
\* elements stored at that moment, and None only when the queue is empty;
\* no push or pop loses or duplicates an element.
C27_PopReturnsMaximum ==
    /\ Cardinality(Elements(pq.storage)) = Len(pq.storage)
    /\ pq.last = "push" => Elements(pq.storage) = Elements(pq.before) \cup {pq.result}
    /\ (pq.last = "pop" /\ pq.before = <<>>) => (pq.result = None /\ pq.storage = <<>>)
    /\ (pq.last = "pop" /\ pq.before # <<>>) =>
          /\ pq.result \in Elements(pq.before)
          /\ \A e \in Elements(pq.before) : e.p <= pq.result.p
          /\ Elements(pq.storage) = Elements(pq.before) \ {pq.result}

\* C28: eq, cmp and partial_cmp of prioritized tasks use only the priority
\* and agree: cmp orders the higher priority first, cmp is Equal exactly
\* when eq holds, partial_cmp(a, b) is Some(cmp(a, b)); the conversion from
\* Priority is strictly monotone and never yields Wait, which is below every
\* user level.
C28_ComparisonsAgree ==
    /\ ord.op = "eq" => (ord.result <=> ord.lhs = ord.rhs)
    /\ ord.op = "cmp" =>
          /\ ord.result = "Equal" <=> ord.lhs = ord.rhs
          /\ ord.result = "Less" <=> ord.lhs > ord.rhs
    /\ ord.op = "partial_cmp" =>
          \/ (ord.lhs = ord.rhs /\ ord.result = <<"Equal">>)
          \/ (ord.lhs > ord.rhs /\ ord.result = <<"Less">>)
          \/ (ord.lhs < ord.rhs /\ ord.result = <<"Greater">>)
    /\ ord.op = "from" =>
          /\ ord.result > TaskPriorityWait
          /\ \A w \in PriorityValues :
                (w < ord.value) => task_priority_from(w) < ord.result

\* the children spawned after the latest cancel_all that have incremented
\* the outstanding counter and not yet decremented it
CountedSinceCancel == {u \in Spawned \ stale : tpc[u] \in {"user", "inserted"}}

\* C37: the outstanding counter and the group's count never go below 0, and
\* the decrement of a child spawned before a cancel_all never takes away
\* the increment of a child spawned after it: every child spawned since the
\* latest cancel_all that has incremented and not yet decremented is still
\* counted.
C37_NoUnderflow ==
    /\ task_count >= 0
    /\ item_count >= 0
    /\ count >= 0
    /\ task_count >= Cardinality(CountedSinceCancel)

\* the child has an await job of wait_for_all_tasks queued or running while
\* wait_for_all is in its final poll()
Waited(t) ==
    /\ pc = "wait_poll2"
    /\ \E i \in DOMAIN engine : engine[i] = AwaitJob(t)

\* C38: while wait_for_all drains the residual children, the result of a
\* waited child is never delivered to the stream while a waited child of
\* higher priority has still to deliver its own: the results of the waited
\* children arrive in non-increasing priority order.
C38_PriorityOrder ==
    [][\A t \in TaskIds :
          (Waited(t) /\ tpc[t] = "user" /\ tpc'[t] = "inserted") =>
             \A u \in TaskIds :
                (Waited(u) /\ prio[u] > prio[t]) => tpc[u] \notin {"spawned", "user"}]_vars

\* C40: first() is one non-blocking poll: with an empty buffer it returns
\* None at once and leaves buffer, counters and waker slot as they were;
\* otherwise it removes and returns the oldest buffered result, takes
\* exactly one off the counter and leaves the other results in order.
C40_FirstIsOnePoll ==
    [][returned' \in {"first_some", "first_none"} =>
          IF buffer = <<>>
          THEN /\ returned' = "first_none"
               /\ UNCHANGED <<buffer, item_count, task_count, wakers, yielded>>
          ELSE /\ returned' = "first_some"
               /\ yielded' = Append(yielded, Head(buffer))
               /\ buffer' = Tail(buffer)
               /\ item_count' = item_count - 1
               /\ UNCHANGED <<task_count, wakers>>]_vars

\* C40 witness: first() returned the older of two buffered results and left
\* the newer one in the buffer.
C40_Witness ==
    /\ returned = "first_some"
    /\ Len(yielded) = 1
    /\ Len(buffer) = 1
    /\ inserted = yielded \o buffer

\* C31: the pool's wait_for_all returns to its caller only after every work
\* item that was enqueued before the call has been run to its end by a
\* worker, for repeated calls and for calls made by several threads at once.
C31_WaitCoversEarlierWork ==
    \A c \in Callers :
        tpool.cpc[c] = "returned" => tpool.before[c] \subseteq tpool.done

\* a dequeue started once the channel is closed returns None at its first
\* check, and a dequeue starts to wait only on an empty, open channel
DequeueChecksClosed(c) ==
    /\ (chan.closed /\ chan.cpc[c] = "idle") =>
          (chan'.cpc[c] = "idle" /\ chan'.result[c] \in {chan.result[c], "None"})
    /\ (chan.cpc[c] # "wait" /\ chan'.cpc[c] = "wait") =>
          (chan.queue = <<>> /\ ~chan.closed)

\* the dequeue of a consumer that close woke returns in this step
WokenByCloseReturns(c) ==
    /\ c \in chan.by_close
    /\ chan.cpc[c] = "woken"
    /\ chan'.cpc[c] = "idle"

\* a dequeue that is inside the channel after close returns
ClosedReleases ==
    \A c \in ChanConsumers :
        (chan.closed /\ chan.cpc[c] \in {"lock", "wait", "woken"}) ~> (chan.cpc[c] = "idle")

C33_NoConsumerBlockedWithItems ==
    (/\ ~chan.closed
     /\ chan.kpc = "idle"
     /\ chan.queue # <<>>
     /\ \A p \in ChanProducers : chan.ppc[p] = "idle"
     /\ \A c \in ChanConsumers : chan.cpc[c] \notin {"lock", "woken"})
        => chan.waiting = {}

\* the insert_item of producer p leaves its critical section in this step
InsertPushes(p) == strm.ppc[p] = "insert" /\ strm'.ppc[p] # "insert"

\* C34: a waker is registered only by a poll that found the buffer empty
\* (the slot holds at most one); an insert into a non-empty buffer wakes
\* nobody; each registered waker is invoked at most once.
C34_WakerEconomy ==
    /\ [][/\ (strm'.slot # strm.slot /\ strm'.slot # 0) =>
                (strm.buffer = <<>> /\ strm.cpc = "lock" /\ strm'.stage = "Wait")
          /\ \A p \in StreamProducers :
                (InsertPushes(p) /\ strm.buffer # <<>>) => strm'.taken[p] = 0]_vars
    /\ [](\A w \in 1..MaxStreamPolls : strm.invoked[w] <= 1)

\* C34 witness: the insert into the empty buffer woke the registered waker
\* once and the insert into the non-empty buffer woke nobody.
C34_Witness ==
    /\ Len(strm.buffer) = 2
    /\ strm.invoked[1] = 1
    /\ \E p \in StreamProducers : strm.ppc[p] = "done" /\ strm.taken[p] = 0

\* C35: no wake-up of the consumer is lost: while the buffer is non-empty no
\* waker is left registered; the insert_item that finds a registered waker
\* takes it, and has invoked it when it returns.
C35_NoLostWakeup ==
    /\ [](strm.buffer # <<>> => strm.slot = 0)
    /\ [][\A p \in StreamProducers :
             (InsertPushes(p) /\ strm.slot # 0) =>
                (strm'.taken[p] = strm.slot /\ strm'.ppc[p] = "took")]_vars
    /\ [](\A p \in StreamProducers :
             (strm.ppc[p] = "done" /\ strm.taken[p] # 0) => strm.invoked[strm.taken[p]] = 1)

\* C35 witness: the poll stored its waker and returned Wait, the next
\* insert_item woke it, and the poll that followed found the item.
C35_Witness ==
    /\ strm.regs = 1
    /\ strm.invoked[1] = 1
    /\ strm.stage = "Ready"
    /\ strm.polls = 2

\* C36: insert_item never invokes the waker while it holds the stream lock:
\* the waker is taken under the lock and woken after the lock was released.
C36_WakeOutsideLock ==
    [][\A p \in StreamProducers :
          (strm.ppc[p] \in {"took", "wake"} /\ strm'.ppc[p] = "done") => strm.lock # p]_vars

\* C39: the waker is a correctly reference-counted capability: for every
\* sequence of clone, wake by value, wake by reference and drop on a waker
\* and its clones, the shared wake state is released exactly once and only
\* after the last handle was consumed or dropped, and no handle is used
\* after the release.
C39_RefCounted ==
    /\ wk.releases <= 1
    /\ ~wk.misuse
    /\ (\E h \in WakerHandles : wk.held[h]) => (wk.strong > 0 /\ wk.releases = 0)
    /\ (wk.impl # "none" /\ \A h \in WakerHandles : ~wk.held[h]) => wk.releases = 1

====
